---------------------------- MODULE Spec2Model ----------------------------
(***************************************************************************)
(* Spike preprocessing of the mesocircuit model                            *)
(* (src/mesocircuit/analysis/spike_analysis.py).                           *)
(*                                                                         *)
(* Conventions of the model                                                *)
(*  - lengths (mm) and times (ms) are integers in model units;             *)
(*  - a spike record is a sequence of rows [nodeid, time_ms, mult]: mult   *)
(*    consecutive identical rows (nodeid, time_ms) of the record;          *)
(*  - a COO matrix is [shape, row, col, data] with parallel sequences;     *)
(*  - a CSR matrix is used through its values only and is the function     *)
(*    [row index -> [column index -> value]];                              *)
(*  - a raised exception is the record [exc |-> name].                     *)
(***************************************************************************)
EXTENDS Integers, Sequences, FiniteSets, TLC

VARIABLES
    positions,   \* positions of population X as loaded: [nodeid -> [x, y]]
    spikes,      \* spike record of population X as loaded
    datasets,    \* the dict `datasets` of _preprocess_data_X
    written,     \* datatypes handed to write_dataset_to_h5_X, in order
    error,       \* "none", or the exception that ended _preprocess_data_X
    pc,          \* "loaded" before _preprocess_data_X has run, "returned" after
    stat_circuit, \* the parameters of the circuit _compute_statistics_X reads
    statistics   \* the result of _compute_statistics_X

VARIABLES
    raw_data,        \* raw_data/{datatype}.h5: [datatype -> [i -> record]]
    extract_1mm2,    \* circuit.ana_dict['extract_1mm2']
    net_extent,      \* circuit.net_dict['extent'] of the run
    nodeids_raw,     \* per rank: the raw node id table, <<>> while None
    processed_data,  \* processed_data/{datatype}_{X}.dat: [datatype -> [i -> rows]]
    returned,        \* per parallel phase: the values returned by finished tasks
    h5,              \* per population: its .h5 files, [datatype -> dataset]
    merged,          \* the merged files all_{datatype}.h5: [datatype -> entries]
    rank_pc,         \* per rank: its position in preprocess_data
    file_access      \* the files written or removed so far: by which rank, where

task_vars == <<positions, spikes, datasets, written, error, pc, stat_circuit, statistics>>

run_config == <<raw_data, extract_1mm2, net_extent>>

run_vars ==
    <<run_config, nodeids_raw, processed_data, returned, h5, merged, rank_pc,
      file_access>>

vars == <<task_vars, run_vars>>

----------------------------------------------------------------------------
(* Bounds of the model *)

\* rows (runs) of a spike record
MaxRuns == 2

\* neurons of the population, circuit.ana_dict['N_X'][i]
N_X == 2

----------------------------------------------------------------------------
(* Configuration and constants of the program *)

\* np.uint8: number of values of the dtype of the neuron x time matrices
uint8 == 256

\* np.uint16: number of values of the dtype of the cell x time matrix
uint16 == 65536

\* circuit.net_dict['extent']
extent == 4

\* circuit.ana_dict['binsize_space']
binsize_space == 2

\* circuit.sim_dict['t_presim']
t_presim == 2

\* circuit.sim_dict['t_sim']
t_sim == 4

\* circuit.sim_dict['sim_resolution']
sim_resolution == 1

\* circuit.ana_dict['binsize_time']
binsize_time == 2

\* helpana.get_space_bins: evenly spaced bin edges over the extent
get_space_bins(ext, binsize) ==
    [k \in 1..((ext \div binsize) + 1) |-> (k - 1) * binsize - (ext \div 2)]

\* helpana.get_time_bins: left edges of the time bins of the simulation
get_time_bins(presim, sim, binsize) ==
    [k \in 1..(sim \div binsize) |-> presim + (k - 1) * binsize]

space_bins == get_space_bins(extent, binsize_space)

time_bins_sim == get_time_bins(t_presim, t_sim, sim_resolution)

time_bins_rs == get_time_bins(t_presim, t_sim, binsize_time)

----------------------------------------------------------------------------
(* numpy and scipy.sparse as the code uses them *)

RECURSIVE SumSeq(_)
SumSeq(s) == IF s = <<>> THEN 0 ELSE Head(s) + SumSeq(Tail(s))

Raise(name) == [exc |-> name]

IsExc(v) == "exc" \in DOMAIN v

\* np.digitize(x, bins, right=False) for increasing bins:
\* the i with bins[i-1] <= x < bins[i], counting from 0
digitize(x, bins) == Cardinality({k \in DOMAIN bins : bins[k] <= x})

\* sequence s restricted to the indices satisfying keep, order kept
RECURSIVE PickFrom(_, _, _)
PickFrom(s, keepSet, k) ==
    IF k > Len(s) THEN <<>>
    ELSE (IF k \in keepSet THEN <<s[k]>> ELSE <<>>) \o PickFrom(s, keepSet, k + 1)

\* sum of data over the stored entries at coordinate (r, c)
SumAt(m, r, c) ==
    SumSeq(PickFrom(m.data, {k \in DOMAIN m.row : m.row[k] = r /\ m.col[k] = c}, 1))

\* tocsr_tocoo with the entries ordered by row only and duplicate
\* coordinates left as they are
tocsr_tocoo_unmerged(m, modulus) ==
    LET order == [r \in 0..(m.shape[1] - 1) |-> {k \in DOMAIN m.row : m.row[k] = r}]
        RECURSIVE ByRow(_)
        ByRow(r) ==
            IF r >= m.shape[1] THEN <<>>
            ELSE PickFrom([k \in DOMAIN m.row |-> k], order[r], 1) \o ByRow(r + 1)
        perm == ByRow(0)
    IN  [shape |-> m.shape,
         row   |-> [k \in DOMAIN perm |-> m.row[perm[k]]],
         col   |-> [k \in DOMAIN perm |-> m.col[perm[k]]],
         data  |-> [k \in DOMAIN perm |-> m.data[perm[k]] % modulus]]

\* coo_matrix.tocsr().tocoo(): entries in row-major order, duplicate
\* coordinates summed in the matrix dtype (no entry is dropped when its
\* sum is zero)
tocsr_tocoo(m, modulus) ==
    LET T      == m.shape[2]
        all    == [k \in 1..(m.shape[1] * T) |-> <<(k - 1) \div T, (k - 1) % T>>]
        stored == {k \in DOMAIN all :
                     \E e \in DOMAIN m.row :
                        m.row[e] = all[k][1] /\ m.col[e] = all[k][2]}
        coords == PickFrom(all, stored, 1)
    IN  [shape |-> m.shape,
         row   |-> [k \in DOMAIN coords |-> coords[k][1]],
         col   |-> [k \in DOMAIN coords |-> coords[k][2]],
         data  |-> [k \in DOMAIN coords |->
                      SumAt(m, coords[k][1], coords[k][2]) % modulus]]

\* np.all(np.diff(row) >= 0)
RowsIncreasing(row) == \A k \in DOMAIN row : k > 1 => row[k - 1] <= row[k]

\* sparse matrix .sum(): accumulated in 64 bits
MatrixSum(m) == SumSeq(m.data)

----------------------------------------------------------------------------
(* _positions_X *)

\* the arrays of the position dictionary, indexed by node id 0..n-1
_positions_X(pos) ==
    [x |-> [i \in 0..(Len(pos) - 1) |-> pos[i + 1].x],
     y |-> [i \in 0..(Len(pos) - 1) |-> pos[i + 1].y]]

----------------------------------------------------------------------------
(* _time_binned_sptrains_X *)

\* spikes.size
SpikesSize(spk) == SumSeq([k \in DOMAIN spk |-> spk[k].mult])

\* TimeIndices digitizing against the time bins as given, not shifted
TimeIndices_unshifted(spk, time_bins) ==
    [k \in DOMAIN spk |-> digitize(spk[k].time_ms, time_bins)]

\* time bins shifted by one bin, and the column of each row of the record
TimeIndices(spk, time_bins) ==
    LET dt             == time_bins[2] - time_bins[1]
        time_bins_digi == Tail(time_bins) \o <<time_bins[Len(time_bins)] + dt>>
    IN  [k \in DOMAIN spk |-> digitize(spk[k].time_ms, time_bins_digi)]

\* sp.coo_matrix((data, (row, col)), shape): the constructor rejects an
\* index outside the shape.  data[k] stands for spk[k].mult entries of 1.
coo_matrix(data, row, col, shape) ==
    IF \E k \in DOMAIN row :
          \/ row[k] < 0 \/ row[k] >= shape[1]
          \/ col[k] < 0 \/ col[k] >= shape[2]
    THEN Raise("ValueError")
    ELSE [shape |-> shape, row |-> row, col |-> col, data |-> data]

_time_binned_sptrains_X(N, spk, time_bins, dtype) ==
    LET shape == <<N, Len(time_bins)>>
        coo   == IF SpikesSize(spk) = 0
                 THEN coo_matrix(<<>>, <<>>, <<>>, shape)
                 ELSE coo_matrix([k \in DOMAIN spk |-> spk[k].mult],
                                 [k \in DOMAIN spk |-> spk[k].nodeid],
                                 TimeIndices(spk, time_bins), shape)
    IN  IF IsExc(coo) THEN coo
        ELSE LET sptrains_bintime == tocsr_tocoo(coo, dtype)
             IN  IF ~RowsIncreasing(sptrains_bintime.row)
                 THEN Raise("AssertionError")
                 ELSE sptrains_bintime

----------------------------------------------------------------------------
(* _time_and_space_binned_sptrains_X *)

\* scipy's csr matrix by its values: duplicate coordinates summed in the
\* matrix dtype
tocsr(m, modulus) ==
    [shape |-> m.shape,
     val   |-> [r \in 0..(m.shape[1] - 1) |->
                  [c \in 0..(m.shape[2] - 1) |-> SumAt(m, r, c) % modulus]]]

\* csr matrix .sum(): accumulated in 64 bits
CsrSum(A) ==
    LET C == A.shape[2]
    IN  SumSeq([k \in 1..(A.shape[1] * C) |-> A.val[(k - 1) \div C][(k - 1) % C]])

\* np.digitize(positions, space_bins[1:], right=False)
SpatialIndex(p, bins) == digitize(p, Tail(bins))

\* the flat indices ind with map_x[ind] = px and map_y[ind] = py, where
\* map_y, map_x = np.mgrid[0:G, 0:G] ravelled
FlatIndices(px, py, bins) ==
    LET G == Len(bins) - 1
    IN  {ind \in 0..(G * G - 1) : ind % G = px /\ ind \div G = py}

\* row.sum(axis=1) of the neuron x time matrix, as int
RowSums(m) ==
    [i \in 0..(m.shape[1] - 1) |->
        SumSeq(PickFrom(m.data, {k \in DOMAIN m.row : m.row[k] = i}, 1))]

\* the loop over enumerate(nspikes): row[j:j + n] = ind, j += n
RECURSIVE AssignRows(_, _, _, _, _, _)
AssignRows(i, j, row, nspikes, pos, bins) ==
    IF i \notin DOMAIN nspikes THEN [row |-> row]
    ELSE LET n == nspikes[i]
         IN  IF n > 0
             THEN LET inds == FlatIndices(SpatialIndex(pos.x[i], bins),
                                          SpatialIndex(pos.y[i], bins), bins)
                  IN  IF Cardinality(inds) # 1
                      THEN Raise("NotImplementedError")
                      ELSE LET ind == CHOOSE c \in inds : TRUE
                           IN  AssignRows(i + 1, j + n,
                                   [k \in DOMAIN row |->
                                       IF j < k /\ k <= j + n THEN ind ELSE row[k]],
                                   nspikes, pos, bins)
             ELSE AssignRows(i + 1, j + n, row, nspikes, pos, bins)

\* CellMatrix accumulating in the dtype of the data it is given (no dtype
\* passed to coo_matrix) and without the assertion
CellMatrix_unchecked(sptrains_bintime, row, ncells, dtype) ==
    tocsr([shape |-> <<ncells, sptrains_bintime.shape[2]>>,
           row   |-> row,
           col   |-> sptrains_bintime.col,
           data  |-> sptrains_bintime.data],
          uint8)

\* the cell x time matrix from the assigned rows, and the conservation
\* assertion
CellMatrix(sptrains_bintime, row, ncells, dtype) ==
    LET sptrains_csr ==
            tocsr([shape |-> <<ncells, sptrains_bintime.shape[2]>>,
                   row   |-> row,
                   col   |-> sptrains_bintime.col,
                   data  |-> [k \in DOMAIN row |-> sptrains_bintime.data[k] % dtype]],
                  dtype)
    IN  IF MatrixSum(sptrains_bintime) # CsrSum(sptrains_csr)
        THEN Raise("AssertionError")
        ELSE sptrains_csr

_time_and_space_binned_sptrains_X(pos, sptrains_bintime, bins, dtype) ==
    LET G == Len(bins) - 1
    IN  IF ~RowsIncreasing(sptrains_bintime.row)
        THEN Raise("AssertionError")
        ELSE LET rows == AssignRows(0, 0,
                             [k \in DOMAIN sptrains_bintime.data |-> 0],
                             RowSums(sptrains_bintime), pos, bins)
             IN  IF IsExc(rows) THEN rows
                 ELSE CellMatrix(sptrains_bintime, rows.row, G * G, dtype)

----------------------------------------------------------------------------
(* _neuron_count_per_spatial_bin_X *)

\* np.histogram2d's bin of one coordinate: searchsorted(edges, v, 'right'),
\* one less for a value on the last edge; 0 and Len(edges) are outliers
HistogramIndex(v, edges) ==
    LET s == Cardinality({k \in DOMAIN edges : edges[k] <= v})
    IN  IF v = edges[Len(edges)] THEN s - 1 ELSE s

\* pos_hist[ybin][xbin], outliers not counted
_neuron_count_per_spatial_bin_X(pos, bins) ==
    LET G == Len(bins) - 1
    IN  [hist |->
           [yb \in 0..(G - 1) |-> [xb \in 0..(G - 1) |->
               Cardinality({i \in DOMAIN pos.x :
                   /\ HistogramIndex(pos.y[i], bins) = yb + 1
                   /\ HistogramIndex(pos.x[i], bins) = xb + 1})]]]

----------------------------------------------------------------------------
(* _instantaneous_time_and_space_binned_rates_X *)

RECURSIVE GCD(_, _)
GCD(a, b) == IF b = 0 THEN a ELSE GCD(b, a % b)

\* the number num / den, den > 0, in lowest terms
Frac(num, den) ==
    LET g == GCD(num, den) IN IF num = 0 THEN <<0, 1>> ELSE <<num \div g, den \div g>>

\* counts / (binsize_time * 1E-3), then rows of cells with pos_hist > 0
\* divided by pos_hist; binsize_time in ms
_instantaneous_time_and_space_binned_rates_X(counts, binsize, neuron_count) ==
    LET G        == Cardinality(DOMAIN neuron_count.hist)
        pos_hist == [c \in 0..(G * G - 1) |-> neuron_count.hist[c \div G][c % G]]
    IN  [shape |-> counts.shape,
         val   |-> [c \in DOMAIN counts.val |-> [t \in DOMAIN counts.val[c] |->
                      IF pos_hist[c] > 0
                      THEN Frac(counts.val[c][t] * 1000, binsize * pos_hist[c])
                      ELSE Frac(counts.val[c][t] * 1000, binsize)]]]

----------------------------------------------------------------------------
(* _preprocess_data_X *)

\* circuit.ana_dict['datatypes_preprocess']
datatypes_preprocess ==
    <<"positions", "sptrains", "sptrains_bintime", "sptrains_bintime_binspace",
      "neuron_count_binspace", "inst_rates_bintime_binspace">>

\* circuit.ana_dict['datatypes_preprocess'] with the sorting arrays
datatypes_preprocess_sorting == Append(datatypes_preprocess, "pos_sorting_arrays")

\* np.argsort(keys): the orders that sort keys; the order of equal keys
\* is not specified (the sort is not stable)
argsort(keys) ==
    {p \in [1..Len(keys) -> 1..Len(keys)] :
        /\ \A a, b \in 1..Len(keys) : a # b => p[a] # p[b]
        /\ \A a \in 1..(Len(keys) - 1) : keys[p[a]] <= keys[p[a + 1]]}

\* what np.argsort may return in _pos_sorting_array_X for the positions pos
\* of a population: an order (counted from 1) that sorts them along the
\* sorting axis; <<>> where np.argsort is not called
SortingOrders(sorting_axis, pos) ==
    IF sorting_axis = "x" THEN argsort([k \in 1..Len(pos) |-> pos[k].x])
    ELSE IF sorting_axis = "y" THEN argsort([k \in 1..Len(pos) |-> pos[k].y])
    ELSE {<<>>}

\* _pos_sorting_array_X on the position dictionary; sorting_axis "None"
\* stands for None, perm for the order np.argsort returns.  A dictionary
\* has no attribute size.
_pos_sorting_array_X(pos_dic, sorting_axis, perm) ==
    IF sorting_axis \in {"x", "y"}
    THEN [indices |-> [k \in DOMAIN perm |-> perm[k] - 1]]
    ELSE IF sorting_axis = "None" THEN Raise("AttributeError")
    ELSE Raise("Exception")

\* datasets.get(key) with the positions of neurons at the origin as default
Lookup_origin(ds, key) ==
    IF key \in DOMAIN ds THEN ds[key]
    ELSE IF key = "positions"
         THEN [x |-> [i \in 0..(N_X - 1) |-> 0], y |-> [i \in 0..(N_X - 1) |-> 0]]
         ELSE Raise("KeyError")

\* datasets[key]
Lookup(ds, key) == IF key \in DOMAIN ds THEN ds[key] ELSE Raise("KeyError")

\* one iteration of the loop over the datatypes: the dataset computed for
\* datatype from the loaded data of the n = circuit.ana_dict['N_X'][i]
\* neurons and the datasets computed so far; circuit holds
\* ana_dict['datatypes_preprocess'] and ana_dict['sorting_axis'], perm the
\* order np.argsort returns
ComputeDataset(circuit, perm, datatype, ds, n, bins, pos, spk) ==
    CASE datatype = "positions" -> _positions_X(pos)
      [] datatype = "sptrains" ->
            _time_binned_sptrains_X(n, spk, time_bins_sim, uint8)
      [] datatype = "sptrains_bintime" ->
            _time_binned_sptrains_X(n, spk, time_bins_rs, uint8)
      [] datatype = "sptrains_bintime_binspace" ->
            LET p == Lookup(ds, "positions")
                m == Lookup(ds, "sptrains_bintime")
            IN  IF IsExc(p) THEN p
                ELSE IF IsExc(m) THEN m
                ELSE _time_and_space_binned_sptrains_X(p, m, bins, uint16)
      [] datatype = "neuron_count_binspace" ->
            LET p == Lookup(ds, "positions")
            IN  IF IsExc(p) THEN p
                ELSE _neuron_count_per_spatial_bin_X(p, bins)
      [] datatype = "inst_rates_bintime_binspace" ->
            LET c == Lookup(ds, "sptrains_bintime_binspace")
                h == Lookup(ds, "neuron_count_binspace")
            IN  IF IsExc(c) THEN c
                ELSE IF IsExc(h) THEN h
                ELSE _instantaneous_time_and_space_binned_rates_X(c, binsize_time, h)
      [] datatype = "pos_sorting_arrays" ->
            LET p == Lookup(ds, "positions")
            IN  IF IsExc(p) THEN p
                ELSE _pos_sorting_array_X(p, circuit.sorting_axis, perm)
      [] OTHER -> Raise("KeyError")

\* the loop: each dataset is written right after it is computed; an
\* exception ends the task and leaves what was written before
RECURSIVE PreprocessLoop(_, _, _, _, _, _, _, _, _)
PreprocessLoop(circuit, perm, k, ds, wr, n, bins, pos, spk) ==
    IF k > Len(circuit.datatypes_preprocess)
    THEN [datasets |-> ds, written |-> wr, error |-> "none"]
    ELSE LET datatype == circuit.datatypes_preprocess[k]
             dataset  == ComputeDataset(circuit, perm, datatype, ds, n, bins, pos, spk)
         IN  IF IsExc(dataset)
             THEN [datasets |-> ds, written |-> wr, error |-> dataset.exc]
             ELSE PreprocessLoop(circuit, perm, k + 1, (datatype :> dataset) @@ ds,
                                 Append(wr, datatype), n, bins, pos, spk)

\* the circuit of the runs: no sorting arrays among the datatypes
PlainCircuit ==
    [datatypes_preprocess |-> datatypes_preprocess, sorting_axis |-> "None"]

_preprocess_data_X(n, ext, pos, spk) ==
    PreprocessLoop(PlainCircuit, <<>>, 1, <<>>, <<>>, n,
                   get_space_bins(ext, binsize_space), pos, spk)

----------------------------------------------------------------------------
(* The preprocessing task of one population on loaded data *)

\* no run of preprocess_data is under way
RunIdle ==
    /\ raw_data = <<>>
    /\ extract_1mm2 = FALSE
    /\ net_extent = 0
    /\ merged = <<>>
    /\ nodeids_raw = <<>>
    /\ processed_data = <<>>
    /\ returned = <<>>
    /\ h5 = <<>>
    /\ rank_pc = <<>>
    /\ file_access = {}

\* coordinates: one step outside the extent on either side, every bin edge,
\* and one step inside the first bin
PosVals ==
    {space_bins[1] - 1, space_bins[1] + 1, space_bins[Len(space_bins)] + 1}
        \cup {space_bins[k] : k \in DOMAIN space_bins}

\* spike times: before the first time bin up to the end of the last one
TimeVals == (t_presim - 1)..(t_presim + t_sim)

\* lengths of a run of identical rows of the spike record
SmallMults == {1, 2}

Mults == {1, uint8 - 1}

SeqsUpTo(S, n) == UNION {[1..k -> S] : k \in 0..n}

Runs(times, mults) == [nodeid : 0..(N_X - 1), time_ms : times, mult : mults]

\* position records of the N_X neurons, sorted by node id
PositionRecords(xs, ys) ==
    {p \in [1..N_X -> [nodeid : 0..(N_X - 1), x : xs, y : ys]] :
        \A i \in 1..N_X : p[i].nodeid = i - 1}

\* one neuron anywhere, the others in the first row of cells
ProbePositions ==
    {p \in PositionRecords(PosVals, PosVals) :
        \E probe \in 1..N_X : \A i \in 1..N_X \ {probe} :
            /\ p[i].x \in {space_bins[1] + 1, space_bins[2]}
            /\ p[i].y = space_bins[1] + 1}

\* the loaded data: one neuron anywhere with spikes in the first coarse
\* bin, or all neurons in one cell with any spikes
InitTask ==
    /\ RunIdle
    /\ stat_circuit = <<>>
    /\ statistics = <<>>
    /\ pc = "loaded"
    /\ datasets = <<>>
    /\ written = <<>>
    /\ error = "none"
    /\ \/ /\ positions \in ProbePositions
          /\ spikes \in SeqsUpTo(Runs({time_bins_rs[1]}, SmallMults), MaxRuns)
       \/ /\ positions \in PositionRecords({space_bins[1] + 1}, {space_bins[1] + 1})
          /\ spikes \in SeqsUpTo(Runs(TimeVals, Mults), MaxRuns)

PreprocessTask ==
    /\ pc = "loaded"
    /\ LET r == _preprocess_data_X(N_X, extent, positions, spikes)
       IN  /\ datasets' = r.datasets
           /\ written' = r.written
           /\ error' = r.error
    /\ pc' = "returned"
    /\ UNCHANGED <<positions, spikes, stat_circuit, statistics>>
    /\ UNCHANGED run_vars

NextTask == PreprocessTask

SpecTask == InitTask /\ [][NextTask]_vars

----------------------------------------------------------------------------
(* Properties of the matrices of one preprocessing task *)

\* the half-open time bin t (counted from 0) of time_bins holds time
InBin(time, time_bins, t) ==
    /\ time_bins[t + 1] <= time
    /\ time < time_bins[t + 1] + (time_bins[2] - time_bins[1])

\* every spike time lies inside the range the time bins cover
TimesInRange(time_bins) ==
    \A k \in DOMAIN spikes :
        \E t \in 0..(Len(time_bins) - 1) : InBin(spikes[k].time_ms, time_bins, t)

\* number of spikes of neuron i of the record whose time falls in bin t
SpikeCount(i, t, time_bins) ==
    SumSeq([k \in DOMAIN spikes |->
              IF spikes[k].nodeid = i /\ InBin(spikes[k].time_ms, time_bins, t)
              THEN spikes[k].mult ELSE 0])

\* number of spikes of neuron i in the record
NeuronSpikes(i) ==
    SumSeq([k \in DOMAIN spikes |-> IF spikes[k].nodeid = i THEN spikes[k].mult ELSE 0])

\* value of the COO matrix m at (r, c): 0 where nothing is stored
Entry(m, r, c) == SumAt(m, r, c)

Binnings == {<<"sptrains", time_bins_sim>>, <<"sptrains_bintime", time_bins_rs>>}

\* the matrix datasets[b[1]] holds the spike counts of the bins b[2]
CountsExact(b) ==
    /\ b[1] \in DOMAIN datasets
    /\ LET m == datasets[b[1]]
       IN  /\ m.shape = <<N_X, Len(b[2])>>
           /\ \A i \in 0..(N_X - 1) :
                /\ \A t \in 0..(Len(b[2]) - 1) : Entry(m, i, t) = SpikeCount(i, t, b[2])
                /\ RowSums(m)[i] = NeuronSpikes(i)
           /\ SpikesSize(spikes) = 0 => Len(m.data) = 0

\* fewer than 2^8 spikes of one neuron in every bin of b[2]
CountsFit(b) ==
    \A i \in 0..(N_X - 1) : \A t \in 0..(Len(b[2]) - 1) : SpikeCount(i, t, b[2]) < uint8

(* C3 as stated: for a spike record with all times inside the range of the
   time bins, _time_binned_sptrains_X returns the (N, T) matrix whose entry
   (i, t) is the number of spikes of neuron i in bin t, its row sums are the
   neurons' spike counts, and an empty record gives the matrix without
   stored entries and no error. *)
C3_CountsExact ==
    (pc = "returned" /\ TimesInRange(time_bins_rs)) =>
        \A b \in Binnings : CountsExact(b)

(* C3 amended: the same, for records that hold fewer than 256 spikes of
   one neuron in every time bin (the uint8 of the matrix fits the data). *)
C3_CountsExactWhenFit ==
    (pc = "returned" /\ TimesInRange(time_bins_rs)) =>
        \A b \in Binnings : CountsFit(b) => CountsExact(b)

\* a record given out of order whose two spikes of neuron 0 fall in one
\* coarse bin and in two fine bins has been binned
C3_Witness ==
    /\ pc = "returned"
    /\ TimesInRange(time_bins_rs)
    /\ Len(spikes) = 2
    /\ spikes[1].time_ms > spikes[2].time_ms
    /\ \E t \in 0..(Len(time_bins_rs) - 1) : SpikeCount(0, t, time_bins_rs) = 2
    /\ "sptrains_bintime" \in DOMAIN datasets
    /\ Len(datasets["sptrains_bintime"].data) = 1
    /\ Len(datasets["sptrains"].data) = 2

\* no coordinate of m is stored twice
CoordinatesUnique(m) ==
    \A k, l \in DOMAIN m.row : (m.row[k] = m.row[l] /\ m.col[k] = m.col[l]) => k = l

NoExplicitZero(m) == \A k \in DOMAIN m.data : m.data[k] # 0

RowsNonDecreasing(m) ==
    \A k, l \in DOMAIN m.row : k < l => m.row[k] <= m.row[l]

\* spikes of neuron i that the binning b places in column c
ColumnCount(i, c, b) ==
    SumSeq([k \in DOMAIN spikes |->
              IF spikes[k].nodeid = i /\ TimeIndices(spikes, b[2])[k] = c
              THEN spikes[k].mult ELSE 0])

ColumnsFit(b) ==
    \A i \in 0..(N_X - 1) : \A c \in 0..(Len(b[2]) - 1) : ColumnCount(i, c, b) < uint8

(* C4 as stated: every matrix returned by _time_binned_sptrains_X, for a
   record in any order and with or without repeated coordinates, stores each
   coordinate at most once, stores no explicit zero and lists its entries
   with non-decreasing row indices. *)
C4_Canonical ==
    pc = "returned" =>
        \A b \in Binnings : b[1] \in DOMAIN datasets =>
            /\ CoordinatesUnique(datasets[b[1]])
            /\ NoExplicitZero(datasets[b[1]])
            /\ RowsNonDecreasing(datasets[b[1]])

(* C4 amended: every returned matrix stores each coordinate at most once
   and lists its entries with non-decreasing row indices; it stores no
   explicit zero when fewer than 256 spikes of one neuron fall into one
   column. *)
C4_CanonicalWhenFit ==
    pc = "returned" =>
        \A b \in Binnings : b[1] \in DOMAIN datasets =>
            /\ CoordinatesUnique(datasets[b[1]])
            /\ RowsNonDecreasing(datasets[b[1]])
            /\ ColumnsFit(b) => NoExplicitZero(datasets[b[1]])

\* a record not sorted by id with a repeated row has been binned
C4_Witness ==
    /\ pc = "returned"
    /\ Len(spikes) = 2
    /\ spikes[1].nodeid > spikes[2].nodeid
    /\ spikes[1].time_ms < spikes[2].time_ms
    /\ spikes[1].mult > 1
    /\ "sptrains" \in DOMAIN datasets
    /\ "sptrains_bintime" \in DOMAIN datasets
    /\ Len(datasets["sptrains"].data) = 2

\* the cells the projection assigns neuron i to: the flat indices matching
\* the digitized position (none for a position past the last edge)
AssignedCells(i) ==
    FlatIndices(SpatialIndex(positions[i + 1].x, space_bins),
                SpatialIndex(positions[i + 1].y, space_bins), space_bins)

Cells == 0..((Len(space_bins) - 1) * (Len(space_bins) - 1) - 1)

CoarseBins == 0..(Len(time_bins_rs) - 1)

\* the projection has returned the cell x time matrix
Projected == pc = "returned" /\ "sptrains_bintime_binspace" \in DOMAIN datasets

(* C1: whenever _time_and_space_binned_sptrains_X returns a matrix, the sum
   of its entries equals the sum of the entries of the coarse neuron x time
   matrix it was given; with differing sums it raises instead. *)
C1_SumConserved ==
    Projected =>
        CsrSum(datasets["sptrains_bintime_binspace"])
            = MatrixSum(datasets["sptrains_bintime"])

\* two neurons in different cells, one of them with an entry above 1, have
\* been projected
C1_Witness ==
    /\ Projected
    /\ AssignedCells(0) # AssignedCells(1)
    /\ \E t \in CoarseBins : Entry(datasets["sptrains_bintime"], 0, t) > 1
    /\ \E t \in CoarseBins : Entry(datasets["sptrains_bintime"], 1, t) > 0
    /\ MatrixSum(datasets["sptrains_bintime"]) >= 3

\* the position p lies outside the span of the bin edges
OffGrid(p) ==
    \/ p.x < space_bins[1] \/ p.x > space_bins[Len(space_bins)]
    \/ p.y < space_bins[1] \/ p.y > space_bins[Len(space_bins)]

(* C2: for every cell c and coarse time bin t, entry (c, t) of the matrix
   returned by _time_and_space_binned_sptrains_X is the sum over the neurons
   i assigned to cell c of entry (i, t) of the coarse neuron x time matrix,
   also when that matrix holds entries above 1.  Stated for populations
   whose neurons all lie inside the span of the bin edges. *)
C2_CellSums ==
    (Projected /\ \A i \in 1..N_X : ~OffGrid(positions[i])) =>
        \A c \in Cells : \A t \in CoarseBins :
            datasets["sptrains_bintime_binspace"].val[c][t]
                = SumSeq([k \in 1..N_X |->
                            IF c \in AssignedCells(k - 1)
                            THEN Entry(datasets["sptrains_bintime"], k - 1, t)
                            ELSE 0])

(* C5: if the position of any neuron of the population lies outside the
   span of the spatial bin edges, the projection raises and returns no
   matrix; it never assigns such a neuron to a cell.  Stated for the neurons
   that have spikes, the ones the projection looks up. *)
C5_OffGridRaises ==
    (pc = "returned" /\ \E i \in 1..N_X :
                            OffGrid(positions[i]) /\ NeuronSpikes(i - 1) > 0) =>
        "sptrains_bintime_binspace" \notin DOMAIN datasets

(* C6: the cell the projection assigns a neuron to is the cell in which
   _neuron_count_per_spatial_bin_X counts it, for every position: each cell's
   neuron count is the number of neurons the projection assigns to that cell,
   and a neuron the histogram does not count is assigned to no cell.
   Stated for populations in which every neuron has a spike, so that the
   projection assigns every neuron. *)
C6_SameCell ==
    (/\ pc = "returned"
     /\ "neuron_count_binspace" \in DOMAIN datasets
     /\ \A i \in 0..(N_X - 1) : NeuronSpikes(i) > 0) =>
        LET G == Len(space_bins) - 1
        IN  \A c \in Cells :
                datasets["neuron_count_binspace"].hist[c \div G][c % G]
                    = Cardinality({i \in 0..(N_X - 1) : c \in AssignedCells(i)})

(* C7: entry (c, t) of the instantaneous-rate matrix is
   count(c, t) / (bin_size_ms * 1e-3) / neuron_count(c) when neuron_count(c)
   is positive, and 0 when neuron_count(c) is 0. *)
C7_Rates ==
    (pc = "returned" /\ "inst_rates_bintime_binspace" \in DOMAIN datasets) =>
        LET G == Len(space_bins) - 1
        IN  \A c \in Cells : \A t \in CoarseBins :
                LET count == datasets["sptrains_bintime_binspace"].val[c][t]
                    n     == datasets["neuron_count_binspace"].hist[c \div G][c % G]
                IN  datasets["inst_rates_bintime_binspace"].val[c][t]
                        = IF n > 0 THEN Frac(count * 1000, binsize_time * n)
                          ELSE <<0, 1>>

----------------------------------------------------------------------------
(* The statistics of one population.                                       *)
(* A sparse matrix loaded from a .h5 file is the record [shape, row, col,  *)
(* data] of its stored entries; a rate or a local variation is a fraction  *)
(* <<numerator, denominator>>; a distance is given by its square.          *)

\* circuit.ana_dict['min_time_index_sim']
min_time_index_sim == 1

\* circuit.ana_dict['ccs_time_interval']
ccs_time_interval == 2

\* circuit.ana_dict['datatypes_statistics']
datatypes_statistics == <<"FRs", "LVs", "CCs_distances">>

\* np.nan
NaN == <<0, 0>>

\* np.array([])
EmptyArray == [empty |-> TRUE]

\* a slice that keeps every column
SliceColumns_all(A, m) == A

\* data[:, m:] of a sparse matrix
SliceColumns(A, m) ==
    LET idx == PickFrom([k \in DOMAIN A.col |-> k],
                        {k \in DOMAIN A.col : A.col[k] >= m}, 1)
    IN  [shape |-> <<A.shape[1], A.shape[2] - m>>,
         row   |-> [j \in DOMAIN idx |-> A.row[idx[j]]],
         col   |-> [j \in DOMAIN idx |-> A.col[idx[j]] - m],
         data  |-> [j \in DOMAIN idx |-> A.data[idx[j]]]]

\* .size of a dense array: the number of its elements
SparseSize_dense(A) == A.shape[1] * A.shape[2]

\* .size of a sparse matrix: the number of stored entries
SparseSize(A) == Len(A.data)

\* sptrains_X.sum(axis=1), accumulated in 64 bits
RowSum(A, i) == SumSeq(PickFrom(A.data, {k \in DOMAIN A.row : A.row[k] = i}, 1))

\* _compute_rates: in 1/s, duration in ms
_compute_rates(sptrains_X, duration) ==
    [i \in 0..(sptrains_X.shape[1] - 1) |->
        Frac(RowSum(sptrains_X, i) * 1000, duration)]

\* np.where(sptrain.toarray())[1]: the columns of row i with a nonzero
\* entry, increasing
SpikeColumns(A, i) ==
    PickFrom([k \in 1..A.shape[2] |-> k - 1],
             {k \in 1..A.shape[2] : SumAt(A, i, k - 1) # 0}, 1)

\* np.diff
diff(v) == [k \in 1..(Len(v) - 1) |-> v[k + 1] - v[k]]

FracAdd(a, b) == Frac(a[1] * b[2] + b[1] * a[2], a[2] * b[2])

RECURSIVE FracSum(_)
FracSum(s) == IF s = <<>> THEN <<0, 1>> ELSE FracAdd(Head(s), FracSum(Tail(s)))

\* a local variation that stays at the initial value of lvs, 0, for a
\* neuron with too few intervals
LvOfIsi_zero(isi) ==
    IF Len(isi) < 2 THEN <<0, 1>>
    ELSE LET terms == [k \in 1..(Len(isi) - 1) |->
                          Frac((isi[k + 1] - isi[k]) * (isi[k + 1] - isi[k]),
                               (isi[k] + isi[k + 1]) * (isi[k] + isi[k + 1]))]
             total == FracSum(terms)
         IN  Frac(3 * total[1], total[2] * Len(terms))

\* 3. * (np.power(np.diff(isi) / (isi[:-1] + isi[1:]), 2)).mean(), or
\* np.nan for fewer than two intervals
LvOfIsi(isi) ==
    IF Len(isi) < 2 THEN NaN
    ELSE LET terms == [k \in 1..(Len(isi) - 1) |->
                          Frac((isi[k + 1] - isi[k]) * (isi[k + 1] - isi[k]),
                               (isi[k] + isi[k + 1]) * (isi[k] + isi[k + 1]))]
             total == FracSum(terms)
         IN  Frac(3 * total[1], total[2] * Len(terms))

\* _compute_lvs: intervals in units of the columns of sptrains_X
_compute_lvs(sptrains_X) ==
    [i \in 0..(sptrains_X.shape[1] - 1) |->
        LvOfIsi(diff(SpikeColumns(sptrains_X, i)))]

\* the index pairs (a, b), 1 <= a < b <= n, row after row: the order of
\* the strict upper triangle and of the condensed distance matrix
RECURSIVE PairsFrom(_, _, _)
PairsFrom(a, b, n) ==
    IF a >= n THEN <<>>
    ELSE IF b > n THEN PairsFrom(a + 1, a + 2, n)
    ELSE <<<<a, b>>>> \o PairsFrom(a, b + 1, n)

Pairs(n) == PairsFrom(1, 2, n)

Abs(v) == IF v < 0 THEN 0 - v ELSE v

\* helperfun._calc_radial_dist_to_cell: the distance between two places,
\* squared; with edge_wrap the shorter way around on either axis
_calc_radial_dist_to_cell(p, q, ext, edge_wrap) ==
    LET ax == Abs(p[1] - q[1])
        ay == Abs(p[2] - q[2])
        dx == IF edge_wrap /\ ext - ax < ax THEN ext - ax ELSE ax
        dy == IF edge_wrap /\ ext - ay < ay THEN ext - ay ELSE ay
    IN  dx * dx + dy * dy

\* _pdist_pbc: the condensed distance matrix of the places xy_pos
_pdist_pbc(xy_pos, ext, edge_wrap) ==
    LET pairs == Pairs(Len(xy_pos))
    IN  [j \in DOMAIN pairs |->
            _calc_radial_dist_to_cell(xy_pos[pairs[j][1]], xy_pos[pairs[j][2]],
                                      ext, edge_wrap)]

\* what a row of np.empty may hold
UninitRows == {<<0, 0>>, <<1, 0>>}

Min(S) == CHOOSE m \in S : \A v \in S : m <= v

\* int(a / b) for a >= 0 and b > 0: the quotient cut off after the point
int_div(a, b) == a \div b

\* _compute_ccs_distances.  circuit holds net_dict['num_neurons'],
\* ana_dict['ccs_num_neurons'] ([auto |-> TRUE] or [auto |-> FALSE, n |-> n])
\* and net_dict['extent']; uninit holds what the rows of np.empty hold
\* before they are written.  A coefficient of np.corrcoef(spt) is given by
\* the two rows of spt it correlates and by their neurons (-1: none).
_compute_ccs_distances(circuit, sptrains_X, binsize, positions_X, uninit) ==
    LET min_num_neurons == Min({circuit.num_neurons[k] : k \in DOMAIN circuit.num_neurons})
        num_neurons == IF circuit.ccs_num_neurons.auto THEN min_num_neurons
                       ELSE IF circuit.ccs_num_neurons.n > min_num_neurons
                            THEN min_num_neurons
                            ELSE circuit.ccs_num_neurons.n
        num_neurons_data == sptrains_X.shape[1]
        num_timesteps == sptrains_X.shape[2] - 1
        ntbin == int_div(circuit.ccs_time_interval, binsize)
        width == num_timesteps \div ntbin
        Spiked(nid) == \E c \in 0..(num_timesteps - 1) : SumAt(sptrains_X, nid, c) > 0
        \* the neurons the loop reaches before it breaks and finds spiking
        mask_nrns == {nid \in 0..(num_neurons_data - 1) :
                        /\ Spiked(nid)
                        /\ Cardinality({m \in 0..(nid - 1) : Spiked(m)}) < num_neurons}
        nids == PickFrom([k \in 1..num_neurons_data |-> k - 1],
                         {k \in 1..num_neurons_data : k - 1 \in mask_nrns}, 1)
        i_spt == Len(nids)
        binned(nid) == [w \in 1..width |->
                          SumSeq([c \in 1..ntbin |->
                                    SumAt(sptrains_X, nid, (w - 1) * ntbin + c - 1)])]
        spt == [a \in 1..num_neurons |->
                  IF a <= i_spt THEN [nid |-> nids[a], row |-> binned(nids[a])]
                  ELSE [nid |-> -1, row |-> uninit[a]]]
        pairs == Pairs(num_neurons)
        xy_pos == [a \in 1..i_spt |-> <<positions_X.x[nids[a]], positions_X.y[nids[a]]>>]
    IN  IF ntbin = 0 THEN Raise("ZeroDivisionError")
        ELSE IF i_spt > 0 /\ num_timesteps % ntbin # 0
        THEN Raise("ValueError")
        ELSE [ccs |-> [j \in DOMAIN pairs |-> <<spt[pairs[j][1]], spt[pairs[j][2]]>>],
              distances_mm |-> _pdist_pbc(xy_pos, circuit.extent, TRUE)]

\* _compute_statistics_X: d holds the loaded preprocessed data, prev the
\* value of the local variable dataset when the iteration starts (a read
\* before the first assignment raises); returns the datasets written, in
\* order, and the exception that ended it, if any.  The variable keeps its
\* value where no branch of the iteration assigns it.
RECURSIVE StatisticsLoop(_, _, _, _, _, _)
StatisticsLoop(k, wr, prev, circuit, d, uninit) ==
    IF k > Len(circuit.datatypes_statistics) THEN [written |-> wr, error |-> "none"]
    ELSE LET datatype == circuit.datatypes_statistics[k]
             dataset ==
                IF SparseSize(d.sptrains_X) = 0 THEN EmptyArray
                ELSE CASE datatype = "FRs" ->
                            [rates |-> _compute_rates(d.sptrains_X, circuit.time_statistics)]
                       [] datatype = "LVs" -> [lvs |-> _compute_lvs(d.sptrains_X)]
                       [] datatype = "CCs_distances" ->
                            _compute_ccs_distances(circuit, d.sptrains_X,
                                sim_resolution, d.positions_X, uninit)
                       [] OTHER -> prev
         IN  IF IsExc(dataset) THEN [written |-> wr, error |-> dataset.exc]
             ELSE StatisticsLoop(k + 1, Append(wr, [datatype |-> datatype, dataset |-> dataset]),
                                 dataset, circuit, d, uninit)

\* the loaded data with the startup transient removed
LoadPreprocessed(positions_X, sptrains) ==
    [positions_X |-> positions_X,
     sptrains_X  |-> SliceColumns(sptrains, min_time_index_sim)]

_compute_statistics_X(circuit, positions_X, sptrains, uninit) ==
    StatisticsLoop(1, <<>>, Raise("UnboundLocalError"), circuit,
                   LoadPreprocessed(positions_X, sptrains), uninit)

----------------------------------------------------------------------------
(* preprocess_data: the run over all populations on the MPI ranks.         *)
(* A .dat or raw .h5 file is the sequence of its rows; the files of a      *)
(* datatype are the function [i -> rows] over the populations i (counted   *)
(* from 0) whose file exists.                                              *)

\* SIZE = COMM.Get_size()
SIZE == 2

Ranks == 0..(SIZE - 1)

\* circuit.ana_dict['X']
X == <<"E", "TC">>

Pops == 0..(Len(X) - 1)

\* circuit.net_dict['num_neurons']
net_num_neurons == [k \in 1..Len(X) |-> N_X]

\* the file sim_dict['fname_nodeids']: first and last raw id per population
NodeidsFile == [k \in 1..Len(X) |-> <<1 + (k - 1) * N_X, k * N_X>>]

\* circuit.ana_dict['write_ascii'][datatype]['sortby']
sortby == [positions |-> "nodeid", spike_recorder |-> "time_ms"]

\* the area of 1 mm2 in squared model units of length
area_1mm2 == 16

\* np.pi as a fraction, exact for the comparisons of the model
np_pi == <<355, 113>>

Perms(n) == {p \in [1..n -> 1..n] : \A a, b \in 1..n : a # b => p[a] # p[b]}

\* a conversion that subtracts the first raw id of the first population
_convert_raw_file_X_first_population(i, nodeids, datatype, raw) ==
    {[k \in 1..Len(raw) |-> [raw[p[k]] EXCEPT !.nodeid = @ - nodeids[1][1]]] :
     p \in argsort([k \in 1..Len(raw) |-> raw[k][sortby[datatype]]])}

\* _convert_raw_file_X: the possible contents comb_data of the processed
\* file of population i; the returned value is its number of rows
_convert_raw_file_X(i, nodeids, datatype, raw) ==
    {[k \in 1..Len(raw) |-> [raw[p[k]] EXCEPT !.nodeid = @ - nodeids[i + 1][1]]] :
     p \in argsort([k \in 1..Len(raw) |-> raw[k][sortby[datatype]]])}

\* a check that passes as soon as one population has the expected size
NeuronNumbersMatch_any(num_neurons) ==
    \E i \in Pops : num_neurons[i] = net_num_neurons[i + 1]

\* (num_neurons == circuit.net_dict['num_neurons']).all()
NeuronNumbersMatch(num_neurons) ==
    \A i \in Pops : num_neurons[i] = net_num_neurons[i + 1]

\* circuit.net_dict['extent'] > 1. / np.sqrt(np.pi)
ExtentFitsDisc(ext) == np_pi[1] * ext * ext > np_pi[2] * area_1mm2

\* x**2 + y**2 <= 1. / np.pi
InDisc(p) == np_pi[1] * (p.x * p.x + p.y * p.y) <= np_pi[2] * area_1mm2

\* a lookup that hands back the id of the full set of neurons
nodeid_lookup_full(node_ids, id_full) == id_full

\* nodeid_lookup[id_full]: the last index at which node_ids holds id_full
nodeid_lookup(node_ids, id_full) ==
    (CHOOSE k \in DOMAIN node_ids :
        /\ node_ids[k] = id_full
        /\ \A m \in DOMAIN node_ids : node_ids[m] = id_full => m <= k) - 1

_extract_center_disc_1mm2(spk, pos) ==
    LET kept      == SelectSeq(pos, InDisc)
        node_ids  == [k \in 1..Len(kept) |-> kept[k].nodeid]
        ids       == {node_ids[k] : k \in 1..Len(kept)}
        InLookup(sp) == sp.nodeid \in ids
        keptspk   == SelectSeq(spk, InLookup)
    IN  [positions_1mm2 |->
            [k \in 1..Len(kept) |-> [kept[k] EXCEPT !.nodeid = k - 1]],
         spikes_1mm2 |->
            [k \in 1..Len(keptspk) |->
                [keptspk[k] EXCEPT !.nodeid = nodeid_lookup(node_ids, @)]]]

\* pt.parallelize_by_array: task i of the array is run by rank i mod SIZE
Owner(i) == i % SIZE

\* the array a phase is parallelized by, as the indices of its elements:
\* the populations, or the datatypes to merge
Tasks(phase) ==
    CASE phase = "merge_preprocess" -> 0..(Len(datatypes_preprocess) - 1)
      [] phase = "merge_statistics" -> 0..(Len(datatypes_statistics) - 1)
      [] OTHER -> Pops

\* the tasks of a phase that rank r has still to run
Pending(r, phase) ==
    {i \in Tasks(phase) : Owner(i) = r /\ i \notin DOMAIN returned[phase]}

\* the phases whose tasks return a result: pt.parallelize_by_array hands
\* every rank the results of all tasks
ResultPhases == {"positions", "spike_recorder", "extract"}

\* the results of all tasks of the phase are there
ResultsGathered(phase) == DOMAIN returned[phase] = Tasks(phase)

\* every task of the phase that rank r owns has returned
AllReturned_own(r, phase) == Pending(r, phase) = {}

\* the end of a phase without results: every task of the phase, of
\* whichever rank, has returned
AllReturned(r, phase) == DOMAIN returned[phase] = Tasks(phase)

IsNextTask(r, i, phase) ==
    /\ i \in Pending(r, phase)
    /\ \A j \in Pending(r, phase) : i <= j

\* the order in which the surrounding system calls preprocess_data,
\* compute_statistics and merge_h5_files_populations: the phase after the
\* last phase of a function
NextFunction(phase) ==
    CASE phase = "preprocess" -> "statistics"
      [] phase = "statistics" -> "merge_preprocess"

\* the calls of pt.parallelize_by_array in preprocess_data,
\* compute_statistics and merge_h5_files_populations, in order
NextPhase(phase) ==
    CASE phase = "positions" -> "spike_recorder"
      [] phase = "spike_recorder" -> "check"
      [] phase = "extract" -> "preprocess"
      [] phase \in {"preprocess", "statistics"} -> NextFunction(phase)
      [] phase = "merge_preprocess" -> "merge_statistics"
      [] phase = "merge_statistics" -> "done"

ParallelPhases ==
    {"positions", "spike_recorder", "extract", "preprocess", "statistics",
     "merge_preprocess", "merge_statistics"}

\* circuit.ana_dict['N_X'][i] at the time of _preprocess_data_X
ana_N_X(i) ==
    IF extract_1mm2 THEN returned.extract[i] ELSE net_num_neurons[i + 1]

\* the rows of a spike file as runs of length one
AsRuns(spk) ==
    [k \in 1..Len(spk) |->
        [nodeid |-> spk[k].nodeid, time_ms |-> spk[k].time_ms, mult |-> 1]]


\* no preprocessing task on loaded data is under way
TaskIdle ==
    /\ positions = <<>>
    /\ spikes = <<>>
    /\ datasets = <<>>
    /\ written = <<>>
    /\ error = "none"
    /\ pc = "idle"
    /\ stat_circuit = <<>>
    /\ statistics = <<>>

\* raw positions of population i: every neuron but the last at the origin,
\* the last one at the given place
RawPositionsOf(i, place) ==
    [k \in 1..N_X |->
        [nodeid |-> NodeidsFile[i + 1][1] + k - 1,
         x |-> IF k = N_X THEN place[1] ELSE 0,
         y |-> IF k = N_X THEN place[2] ELSE 0]]

Reverse(s) == [k \in 1..Len(s) |-> s[Len(s) + 1 - k]]

\* raw position records: the last neuron at the origin or, in the first
\* population, in the corner of the extent; in file order or reversed; or
\* with the last neuron missing
RawPositionRecords(i) ==
    LET places   == IF i = 0
                    THEN {<<0, 0>>, <<space_bins[1], space_bins[1]>>}
                    ELSE {<<0, 0>>}
        complete == {RawPositionsOf(i, c) : c \in places}
    IN  complete
          \cup (IF i = 0 THEN {Reverse(r) : r \in complete} ELSE {})
          \cup {SubSeq(r, 1, N_X - 1) : r \in complete}

RawTimes == {t_presim + 1, t_presim + binsize_time}

\* raw spike records: no spike, one or two spikes of the first and the
\* last neuron
RawSpikeRecords(i) ==
    IF i = 0
    THEN LET rows == [nodeid : {NodeidsFile[i + 1][1], NodeidsFile[i + 1][2]},
                      time_ms : RawTimes]
         IN  {<<>>} \cup {<<a>> : a \in rows} \cup {<<a, b>> : a \in rows, b \in rows}
    ELSE {<<>>, <<[nodeid |-> NodeidsFile[i + 1][2], time_ms |-> t_presim + 1]>>}

\* raw_data/positions.h5: one record per population
RawPositionFiles ==
    {f \in [Pops -> UNION {RawPositionRecords(i) : i \in Pops}] :
        \A i \in Pops : f[i] \in RawPositionRecords(i)}

\* raw_data/spike_recorder.h5: one record per population
RawSpikeFiles ==
    {f \in [Pops -> UNION {RawSpikeRecords(i) : i \in Pops}] :
        \A i \in Pops : f[i] \in RawSpikeRecords(i)}

\* extents of the run: the extent of the task, and one spatial bin
Extents == {binsize_space, extent}

Init ==
    /\ TaskIdle
    /\ raw_data \in [positions : RawPositionFiles,
                     spike_recorder : RawSpikeFiles]
    /\ extract_1mm2 \in BOOLEAN
    /\ net_extent \in (IF extract_1mm2 THEN Extents ELSE {extent})
    /\ merged = <<>>
    /\ nodeids_raw = [r \in Ranks |-> <<>>]
    /\ processed_data = [positions |-> <<>>, spike_recorder |-> <<>>]
    /\ returned = [positions |-> <<>>, spike_recorder |-> <<>>,
                   extract |-> <<>>, preprocess |-> <<>>, statistics |-> <<>>,
                   merge_preprocess |-> <<>>, merge_statistics |-> <<>>]
    /\ h5 = <<>>
    /\ rank_pc = [r \in Ranks |-> "load_nodeids"]
    /\ file_access = {}

bcast_own(r, obj) == obj

\* COMM.bcast(obj, root=0): the root keeps its object, every other rank
\* gets the root's
bcast(r, obj) == IF r = 0 THEN obj ELSE nodeids_raw[0]

\* _load_raw_nodeids: rank 0 reads the file, COMM.bcast hands the table to
\* the other ranks once rank 0 has it
LoadRawNodeids(r) ==
    /\ rank_pc[r] = "load_nodeids"
    /\ r = 0 \/ nodeids_raw[0] # <<>>
    /\ nodeids_raw' = [nodeids_raw EXCEPT ![r] =
                          bcast(r, IF r = 0 THEN NodeidsFile ELSE <<>>)]
    /\ rank_pc' = [rank_pc EXCEPT ![r] = "positions"]
    /\ UNCHANGED <<task_vars, run_config, merged, processed_data, returned, h5,
                   file_access>>

\* the file {name}_{X}.{ext} of the directory processed_data, or
\* {name}.{ext} of the directory parameters where X is ""
File(name, pop, ext) == [name |-> name, X |-> pop, ext |-> ext]

\* rank r writes or removes the files at its place in the run
Accesses(files, r) ==
    {[file |-> f, rank |-> r, at |-> rank_pc[r]] : f \in files}

\* the parameter files that a rank writes anew after the extraction
RewriteAnaDict(r) ==
    Accesses({File("ana_dict", "", "pkl"), File("ana_dict", "", "txt")}, r)

\* the populations, counted from 1, whose file of the datatype a merge has
\* removed
Removed(before, after, datatype) ==
    {k \in 1..Len(X) : /\ k - 1 \in DOMAIN before
                       /\ datatype \in DOMAIN before[k - 1]
                       /\ datatype \notin DOMAIN after[k - 1]}

\* one task _convert_raw_file_X of the two conversion phases
ConvertRawFile(r, i, datatype) ==
    /\ rank_pc[r] = datatype
    /\ IsNextTask(r, i, datatype)
    /\ \E comb_data \in _convert_raw_file_X(i, nodeids_raw[r], datatype,
                                            raw_data[datatype][i]) :
          /\ processed_data' =
                [processed_data EXCEPT ![datatype] = (i :> comb_data) @@ @]
          /\ returned' = [returned EXCEPT ![datatype] = (i :> Len(comb_data)) @@ @]
    /\ file_access' = file_access \cup Accesses({File(datatype, X[i + 1], "dat")}, r)
    /\ UNCHANGED <<task_vars, run_config, merged, nodeids_raw, h5, rank_pc>>

\* pt.parallelize_by_array returns on a rank once every task of the array
\* has returned
EndParallelize(r) ==
    /\ rank_pc[r] \in ParallelPhases
    /\ IF rank_pc[r] \in ResultPhases
       THEN ResultsGathered(rank_pc[r])
       ELSE AllReturned(r, rank_pc[r])
    /\ rank_pc' = [rank_pc EXCEPT ![r] = NextPhase(@)]
    /\ file_access' = IF rank_pc[r] = "extract"
                      THEN file_access \cup RewriteAnaDict(r)
                      ELSE file_access
    /\ UNCHANGED <<task_vars, run_config, merged, nodeids_raw, processed_data,
                   returned, h5>>

\* the check of the neuron numbers and the assertion on the extent
CheckNeuronNumbers(r) ==
    /\ rank_pc[r] = "check"
    /\ rank_pc' = [rank_pc EXCEPT ![r] =
            IF ~NeuronNumbersMatch(returned.positions) THEN "Exception"
            ELSE IF ~extract_1mm2 THEN "preprocess"
            ELSE IF ~ExtentFitsDisc(net_extent) THEN "AssertionError"
            ELSE "extract"]
    /\ UNCHANGED <<task_vars, run_config, merged, nodeids_raw, processed_data,
                   returned, h5, file_access>>

\* one task _extract_data_for_1mm2: the processed files of population i
\* are deleted and written anew with the data inside the disc
ExtractDataFor1mm2(r, i) ==
    /\ rank_pc[r] = "extract"
    /\ IsNextTask(r, i, "extract")
    /\ LET e == _extract_center_disc_1mm2(processed_data.spike_recorder[i],
                                          processed_data.positions[i])
       IN  /\ processed_data' =
                [positions |-> (i :> e.positions_1mm2) @@ processed_data.positions,
                 spike_recorder |->
                    (i :> e.spikes_1mm2) @@ processed_data.spike_recorder]
           /\ returned' =
                [returned EXCEPT !.extract = (i :> Len(e.positions_1mm2)) @@ @]
    /\ file_access' = file_access \cup
            Accesses({File(datatype, X[i + 1], "dat") :
                         datatype \in {"positions", "spike_recorder"}}, r)
    /\ UNCHANGED <<task_vars, run_config, merged, nodeids_raw, h5, rank_pc>>

\* one task _preprocess_data_X: the datasets are written to the .h5 files
\* of population i as they are computed; an exception ends the rank
PreprocessDataX(r, i) ==
    /\ rank_pc[r] = "preprocess"
    /\ IsNextTask(r, i, "preprocess")
    /\ LET res == _preprocess_data_X(ana_N_X(i), net_extent,
                                     processed_data.positions[i],
                                     AsRuns(processed_data.spike_recorder[i]))
       IN  /\ h5' = (i :> [dt \in DOMAIN res.datasets |-> res.datasets[dt]]) @@ h5
           /\ file_access' = file_access \cup
                  Accesses({File(dt, X[i + 1], "h5") : dt \in DOMAIN res.datasets}, r)
           /\ IF res.error = "none"
              THEN /\ returned' = [returned EXCEPT !.preprocess = (i :> TRUE) @@ @]
                   /\ UNCHANGED rank_pc
              ELSE /\ rank_pc' = [rank_pc EXCEPT ![r] = res.error]
                   /\ UNCHANGED returned
    /\ UNCHANGED <<task_vars, run_config, merged, nodeids_raw, processed_data>>

\* the circuit of the run as _compute_statistics_X reads it
RunCircuit ==
    [num_neurons     |-> net_num_neurons,
     ccs_num_neurons |-> [auto |-> TRUE],
     extent          |-> net_extent,
     ccs_time_interval |-> ccs_time_interval,
     datatypes_statistics |-> datatypes_statistics,
     time_statistics |-> t_sim - min_time_index_sim * sim_resolution]

\* the datasets of a task as files: [datatype -> dataset]
AsFiles(wr) ==
    [dt \in {wr[k].datatype : k \in DOMAIN wr} |->
        wr[CHOOSE k \in DOMAIN wr : wr[k].datatype = dt].dataset]

\* one task _compute_statistics_X: the statistics are written to the .h5
\* files of population i as they are computed; an exception ends the rank
ComputeStatisticsX(r, i) ==
    /\ rank_pc[r] = "statistics"
    /\ IsNextTask(r, i, "statistics")
    /\ \E u \in UninitRows :
          LET res == _compute_statistics_X(RunCircuit, h5[i]["positions"],
                        h5[i]["sptrains"], [a \in 1..N_X |-> u])
          IN  /\ h5' = [h5 EXCEPT ![i] = AsFiles(res.written) @@ @]
              /\ file_access' = file_access \cup
                     Accesses({File(dt, X[i + 1], "h5") :
                                  dt \in DOMAIN AsFiles(res.written)}, r)
              /\ IF res.error = "none"
                 THEN /\ returned' = [returned EXCEPT !.statistics = (i :> TRUE) @@ @]
                      /\ UNCHANGED rank_pc
                 ELSE /\ rank_pc' = [rank_pc EXCEPT ![r] = res.error]
                      /\ UNCHANGED returned
    /\ UNCHANGED <<task_vars, run_config, merged, nodeids_raw, processed_data>>

\* f_X[X] of the file of population i (counted from 0) read as the contents
\* of the last population's file
CopyGroup_last(files, i, datatype) == files[Len(X) - 1][datatype]

\* f_X[X]: the contents of the file {datatype}_{X}.h5 of population i
\* (counted from 0)
CopyGroup(files, i, datatype) == files[i][datatype]

\* the loop of _merge_h5_files_populations_datatype from the k-th
\* population on: f holds the groups copied to all_{datatype}.h5 so far,
\* files the .h5 files of the populations
RECURSIVE MergeLoop(_, _, _, _)
MergeLoop(k, f, files, datatype) ==
    IF k > Len(X) THEN [all |-> f, files |-> files, error |-> "none"]
    ELSE IF k - 1 \notin DOMAIN files \/ datatype \notin DOMAIN files[k - 1]
    THEN [all |-> f, files |-> files, error |-> "FileNotFoundError"]
    ELSE IF \E j \in DOMAIN f : f[j].name = X[k]
    THEN [all |-> f, files |-> files, error |-> "ValueError"]
    ELSE MergeLoop(k + 1,
                   Append(f, [name |-> X[k],
                              data |-> CopyGroup(files, k - 1, datatype)]),
                   [files EXCEPT ![k - 1] =
                        [dt \in DOMAIN @ \ {datatype} |-> @[dt]]],
                   datatype)

_merge_h5_files_populations_datatype(datatype, files) ==
    MergeLoop(1, <<>>, files, datatype)

\* the datatypes a merge phase is parallelized by
MergeDatatypes(phase) ==
    IF phase = "merge_preprocess" THEN datatypes_preprocess
    ELSE datatypes_statistics

\* one task _merge_h5_files_populations_datatype of the two merge phases
MergeDatatype(r, i, phase) ==
    /\ rank_pc[r] = phase
    /\ IsNextTask(r, i, phase)
    /\ LET datatype == MergeDatatypes(phase)[i + 1]
           res == _merge_h5_files_populations_datatype(datatype, h5)
       IN  /\ merged' = (datatype :> res.all) @@ merged
           /\ h5' = res.files
           /\ file_access' = file_access \cup
                  Accesses({File(datatype, "all", "h5")} \cup
                           {File(datatype, X[k], "h5") :
                               k \in Removed(h5, res.files, datatype)}, r)
           /\ IF res.error = "none"
              THEN /\ returned' = [returned EXCEPT ![phase] = (i :> TRUE) @@ @]
                   /\ UNCHANGED rank_pc
              ELSE /\ rank_pc' = [rank_pc EXCEPT ![r] = res.error]
                   /\ UNCHANGED returned
    /\ UNCHANGED <<task_vars, run_config, nodeids_raw, processed_data>>

Next ==
    \E r \in Ranks :
        \/ LoadRawNodeids(r)
        \/ \E i \in Pops : ConvertRawFile(r, i, "positions")
        \/ \E i \in Pops : ConvertRawFile(r, i, "spike_recorder")
        \/ EndParallelize(r)
        \/ CheckNeuronNumbers(r)
        \/ \E i \in Pops : ExtractDataFor1mm2(r, i)
        \/ \E i \in Pops : PreprocessDataX(r, i)
        \/ \E i \in Pops : ComputeStatisticsX(r, i)
        \/ \E i \in Tasks("merge_preprocess") : MergeDatatype(r, i, "merge_preprocess")
        \/ \E i \in Tasks("merge_statistics") : MergeDatatype(r, i, "merge_statistics")

Spec == Init /\ [][Next]_vars


----------------------------------------------------------------------------
(* Properties of the conversion of the raw files and of the run *)

\* the processed files of population i that _convert_raw_file_X has
\* written and the disc extraction has not written anew
Converted(datatype, i) ==
    /\ i \in DOMAIN processed_data[datatype]
    /\ i \notin DOMAIN returned.extract

\* rows is a rearrangement of the rows expected
Rearranged(rows, expected) ==
    /\ Len(rows) = Len(expected)
    /\ \E p \in Perms(Len(expected)) :
          \A k \in 1..Len(expected) : rows[k] = expected[p[k]]

\* C8: after _convert_raw_file_X has written the spike file of a
\* population, the file holds the raw spikes, each with the first raw id of
\* the population subtracted from its id and the pre-simulation duration
\* t_presim subtracted from its time.
C8_TimesShifted ==
    \A i \in Pops : Converted("spike_recorder", i) =>
        LET raw == raw_data.spike_recorder[i]
        IN  Rearranged(processed_data.spike_recorder[i],
                [k \in 1..Len(raw) |->
                    [nodeid  |-> raw[k].nodeid - NodeidsFile[i + 1][1],
                     time_ms |-> raw[k].time_ms - t_presim]])

\* C9: after _convert_raw_file_X for population i, the written file holds
\* exactly the raw records of the population (none dropped, none
\* duplicated), each with node id = raw id - first and nothing else
\* changed; every written id lies in [0, N) with N = last - first + 1; and
\* the returned value is the number of raw records.
C9_IdsShiftedCountKept ==
    \A datatype \in {"positions", "spike_recorder"} : \A i \in Pops :
        Converted(datatype, i) =>
            LET first == NodeidsFile[i + 1][1]
                last  == NodeidsFile[i + 1][2]
                rows  == processed_data[datatype][i]
                raw   == raw_data[datatype][i]
            IN  /\ Rearranged(rows, [k \in 1..Len(raw) |->
                                  [raw[k] EXCEPT !.nodeid = @ - first]])
                /\ \A k \in 1..Len(rows) : rows[k].nodeid \in 0..(last - first)
                /\ returned[datatype][i] = Len(raw)

\* the files of the second population have been converted: its positions
\* from a complete record, and a spike; and the spike file of the first
\* population from a record of two spikes that was not sorted by time
C9_Witness ==
    /\ Converted("positions", 1)
    /\ Len(raw_data.positions[1]) = N_X
    /\ Converted("spike_recorder", 1)
    /\ Len(raw_data.spike_recorder[1]) = 1
    /\ Converted("spike_recorder", 0)
    /\ Len(raw_data.spike_recorder[0]) = 2
    /\ raw_data.spike_recorder[0][1].time_ms > raw_data.spike_recorder[0][2].time_ms
    /\ raw_data.spike_recorder[0][1].nodeid > raw_data.spike_recorder[0][2].nodeid

\* the number of converted position records of some population differs
\* from the expected one
NeuronNumberMismatch ==
    \E i \in DOMAIN returned.positions :
        returned.positions[i] # net_num_neurons[i + 1]

\* C10: if the number of converted position records of a population
\* differs from the expected network size, no rank gets past the check of
\* the neuron numbers other than by the exception: no disc extraction is
\* performed, and no matrix is constructed or written for any population.
C10_MismatchAborts ==
    NeuronNumberMismatch =>
        /\ DOMAIN returned.extract = {}
        /\ DOMAIN returned.preprocess = {}
        /\ DOMAIN h5 = {}
        /\ \A r \in Ranks :
              rank_pc[r] \in {"load_nodeids", "positions", "spike_recorder",
                              "check", "Exception"}

\* with the extraction switched on, one population a neuron short and the
\* other complete, every rank has raised the exception
C10_Witness ==
    /\ extract_1mm2
    /\ NeuronNumberMismatch
    /\ \E i \in DOMAIN returned.positions :
          returned.positions[i] = net_num_neurons[i + 1]
    /\ \A r \in Ranks : rank_pc[r] = "Exception"


----------------------------------------------------------------------------
(* _extract_center_disc_1mm2 on the loaded data of one population *)

\* places of a neuron: the origin, a place just inside the disc of 1 mm2
\* and the corner of the extent, outside of it
DiscPlaces == {<<0, 0>>, <<space_bins[1], 1>>, <<space_bins[1], space_bins[1]>>}

\* positions as loaded from the processed file: sorted by node id
DiscPositions ==
    {p \in [1..N_X -> [nodeid : 0..(N_X - 1),
                       x : {c[1] : c \in DiscPlaces},
                       y : {c[2] : c \in DiscPlaces}]] :
        \A k \in 1..N_X : p[k].nodeid = k - 1 /\ <<p[k].x, p[k].y>> \in DiscPlaces}

\* spike rows as loaded from the processed file
DiscSpikes == SeqsUpTo([nodeid : 0..(N_X - 1), time_ms : RawTimes], MaxRuns)

InitExtract ==
    /\ RunIdle
    /\ stat_circuit = <<>>
    /\ statistics = <<>>
    /\ positions \in DiscPositions
    /\ spikes \in DiscSpikes
    /\ datasets = <<>>
    /\ written = <<>>
    /\ error = "none"
    /\ pc = "loaded"

ExtractTask ==
    /\ pc = "loaded"
    /\ datasets' = _extract_center_disc_1mm2(spikes, positions)
    /\ pc' = "extracted"
    /\ UNCHANGED <<positions, spikes, written, error, stat_circuit, statistics>>
    /\ UNCHANGED run_vars

NextExtract == ExtractTask

SpecExtract == InitExtract /\ [][NextExtract]_vars

\* the neuron of the loaded positions lies inside the disc of 1 mm2:
\* x^2 + y^2 <= 1/pi in mm, with pi between 3.14159 and 3.14160
InsideDisc(n) ==
    100000 * area_1mm2 >= 314160 * (n.x * n.x + n.y * n.y)

KeptIds == {positions[k].nodeid : k \in {m \in 1..Len(positions) : InsideDisc(positions[m])}}

\* the new id of a kept neuron: the number of kept neurons of smaller id
NewId(id) == Cardinality({m \in KeptIds : m < id})

\* the input spikes of kept neurons in their order, ids translated
RECURSIVE KeptSpikes(_)
KeptSpikes(spk) ==
    IF spk = <<>> THEN <<>>
    ELSE IF Head(spk).nodeid \in KeptIds
         THEN <<[nodeid |-> NewId(Head(spk).nodeid), time_ms |-> Head(spk).time_ms]>>
                  \o KeptSpikes(Tail(spk))
         ELSE KeptSpikes(Tail(spk))

\* C11: _extract_center_disc_1mm2 keeps exactly the neurons with
\* x^2 + y^2 <= 1/pi, numbers the M kept neurons 0..M-1 in order of
\* increasing original id with their places unchanged, and returns exactly
\* the input spikes of kept neurons in their original order, each with the
\* new id of its neuron and its time unchanged; every returned spike id is
\* below M.
C11_DiscExtracted ==
    pc = "extracted" =>
        LET M == Cardinality(KeptIds)
            P == datasets.positions_1mm2
        IN  /\ Len(P) = M
            /\ \A j \in 1..M :
                  /\ P[j].nodeid = j - 1
                  /\ \E k \in 1..Len(positions) :
                        /\ positions[k].nodeid \in KeptIds
                        /\ NewId(positions[k].nodeid) = j - 1
                        /\ P[j].x = positions[k].x
                        /\ P[j].y = positions[k].y
            /\ datasets.spikes_1mm2 = KeptSpikes(spikes)
            /\ \A k \in 1..Len(datasets.spikes_1mm2) :
                  datasets.spikes_1mm2[k].nodeid \in 0..(M - 1)

\* the first neuron lies outside the disc and has a spike, a later neuron
\* lies inside and has spiked before it, and the extraction has run
C11_Witness ==
    /\ pc = "extracted"
    /\ ~InsideDisc(positions[1])
    /\ positions[N_X].nodeid \in KeptIds
    /\ Len(spikes) = 2
    /\ spikes[1].nodeid = positions[N_X].nodeid
    /\ spikes[2].nodeid = positions[1].nodeid


----------------------------------------------------------------------------
(* Properties of the configuration checks of the run *)

\* the disc of 1 mm2 fits inside the extent: E > 2 * sqrt(A / pi), that is
\* pi * E^2 > 4 * A, with pi between 3.14159 and 3.14160
DiameterFitsExtent(ext) == 314159 * ext * ext > 4 * 100000 * area_1mm2

\* C12: with the disc extraction switched on, preprocess_data rejects
\* every extent E that does not satisfy E > 2*sqrt(A/pi): no rank of such
\* a run gets past the check of the extent.
C12_SmallExtentRejected ==
    (extract_1mm2 /\ ~DiameterFitsExtent(net_extent)) =>
        \A r \in Ranks : rank_pc[r] \notin {"extract", "preprocess", "done"}

\* C13: a run whose configuration asks for a disc too large for the
\* extent is aborted before any worker has written a processed artifact:
\* no processed .dat file and no .h5 file exists in any state of the run.
C13_ConfigErrorPreflight ==
    (extract_1mm2 /\ ~ExtentFitsDisc(net_extent)) =>
        /\ DOMAIN processed_data.positions = {}
        /\ DOMAIN processed_data.spike_recorder = {}
        /\ DOMAIN h5 = {}


----------------------------------------------------------------------------
(* _compute_statistics_X on the preprocessed data of one population *)

\* intervals of length ccs_time_interval that the analysed time holds
StatWindows == 2

\* columns of the matrix 'sptrains' as loaded: the transient, the analysed
\* intervals and the last column
StatColumns ==
    min_time_index_sim + StatWindows * (ccs_time_interval \div sim_resolution) + 1

\* places of a neuron: at the first edge of the extent, and beyond its
\* centre
StatPlaces == {<<space_bins[1], 0>>, <<1, 0>>}

\* positions sorted by node id: the first two neurons at any of the
\* places, the others at the first edge
StatPositions ==
    {[k \in 1..N_X |->
        LET c == IF k = 1 THEN c1 ELSE IF k = 2 THEN c2 ELSE <<space_bins[1], 0>>
        IN  [nodeid |-> k - 1, x |-> c[1], y |-> c[2]]] :
     c1 \in StatPlaces, c2 \in StatPlaces}

\* spike trains, [column -> count], of the first neuron: up to three
\* spikes in any columns, or a spike in every column but at most one
FirstTrains ==
    {t \in [0..(StatColumns - 1) -> {0, 1}] :
        LET n == Cardinality({c \in DOMAIN t : t[c] = 1})
        IN  n <= 3 \/ n >= StatColumns - 1}

\* spike trains of the other neurons: silent; spikes only in the transient
\* and in the last column; two spikes in one column
OtherTrains ==
    {[c \in 0..(StatColumns - 1) |-> 0],
     [c \in 0..(StatColumns - 1) |-> IF c \in {0, StatColumns - 1} THEN 1 ELSE 0],
     [c \in 0..(StatColumns - 1) |-> IF c = min_time_index_sim THEN 2 ELSE 0]}

\* the sparse matrix (no explicit zero) with the given trains as rows
MatrixOfTrains(trains) ==
    LET N      == Cardinality(DOMAIN trains)
        all    == [k \in 1..(N * StatColumns) |->
                     <<(k - 1) \div StatColumns, (k - 1) % StatColumns>>]
        coords == PickFrom(all, {k \in DOMAIN all : trains[all[k][1]][all[k][2]] > 0}, 1)
    IN  [shape |-> <<N, StatColumns>>,
         row   |-> [j \in DOMAIN coords |-> coords[j][1]],
         col   |-> [j \in DOMAIN coords |-> coords[j][2]],
         data  |-> [j \in DOMAIN coords |-> trains[coords[j][1]][coords[j][2]]]]

\* the matrices loaded: the trains of the neurons after the second are
\* silent
StatMatrices ==
    {MatrixOfTrains([i \in 0..(N_X - 1) |->
                        IF i = 0 THEN t0 ELSE IF i = 1 THEN t1
                        ELSE [c \in 0..(StatColumns - 1) |-> 0]]) :
     t0 \in FirstTrains, t1 \in OtherTrains}

Circuits ==
    [num_neurons : {net_num_neurons},
     ccs_num_neurons : {[auto |-> TRUE], [auto |-> FALSE, n |-> 2],
                        [auto |-> FALSE, n |-> N_X + 1]},
     extent : {extent},
     ccs_time_interval : {ccs_time_interval},
     datatypes_statistics : {datatypes_statistics},
     time_statistics : {(StatColumns - min_time_index_sim) * sim_resolution}]

InitStats ==
    /\ RunIdle
    /\ positions \in StatPositions
    /\ spikes = <<>>
    /\ \E m \in StatMatrices :
          datasets = [positions |-> _positions_X(positions), sptrains |-> m]
    /\ written = <<>>
    /\ error = "none"
    /\ pc = "preprocessed"
    /\ stat_circuit \in Circuits
    /\ statistics = <<>>

StatisticsTask ==
    /\ pc = "preprocessed"
    /\ \E u \in UninitRows :
          LET res == _compute_statistics_X(stat_circuit, datasets.positions,
                        datasets.sptrains, [a \in 1..N_X |-> u])
          IN  /\ statistics' = res.written
              /\ error' = res.error
    /\ pc' = "computed"
    /\ UNCHANGED <<positions, spikes, datasets, written, stat_circuit>>
    /\ UNCHANGED run_vars

NextStats == StatisticsTask

SpecStats == InitStats /\ [][NextStats]_vars


----------------------------------------------------------------------------
(* Properties of the statistics of one population *)

\* the dataset written for a statistics datatype; <<>> if none was
Written(datatype) ==
    IF \E k \in DOMAIN statistics : statistics[k].datatype = datatype
    THEN statistics[CHOOSE k \in DOMAIN statistics :
                        statistics[k].datatype = datatype].dataset
    ELSE <<>>

\* the columns of the loaded fine matrix at or after the transient cut-off
\* in which neuron i has spiked
SpikeCols(i) ==
    {c \in min_time_index_sim..(StatColumns - 1) : SumAt(datasets.sptrains, i, c) > 0}

\* the spikes of neuron i at or after the transient cut-off
SpikesAfterCut(i) ==
    SumSeq([k \in 1..(StatColumns - min_time_index_sim) |->
              SumAt(datasets.sptrains, i, min_time_index_sim + k - 1)])

\* the rate of neuron i: count * 1000 / duration_ms
ExpectedRate(i) == Frac(SpikesAfterCut(i) * 1000, stat_circuit.time_statistics)

\* C17 as stated: for every neuron i the rate written for 'FRs' equals
\* (spikes of neuron i in the columns at or after the cut-off) * 1000 /
\* duration_ms.
C17_RatesWritten ==
    pc = "computed" =>
        /\ "rates" \in DOMAIN Written("FRs")
        /\ \A i \in 0..(N_X - 1) : Written("FRs").rates[i] = ExpectedRate(i)

\* C17 as amended: in a population with at least one spike at or after the
\* cut-off, for every neuron i the rate written for 'FRs' equals (spikes of
\* neuron i in the columns at or after the cut-off) * 1000 / duration_ms.
C17_RatesWrittenWhenSpikes ==
    (pc = "computed" /\ \E i \in 0..(N_X - 1) : SpikesAfterCut(i) > 0) =>
        /\ "rates" \in DOMAIN Written("FRs")
        /\ \A i \in 0..(N_X - 1) : Written("FRs").rates[i] = ExpectedRate(i)

\* the first neuron has spikes before and after the cut-off, another
\* neuron has two spikes in one column, and the statistics are computed
C17_Witness ==
    /\ pc = "computed"
    /\ SumAt(datasets.sptrains, 0, 0) > 0
    /\ SpikesAfterCut(0) >= 2
    /\ \E i \in 1..(N_X - 1) : \E c \in SpikeCols(i) : SumAt(datasets.sptrains, i, c) = 2

\* C18: for a population with zero recorded spikes _compute_statistics_X
\* writes the empty array under every configured statistics datatype, in
\* the configured order, and raises no error.
C18_EmptyPopulation ==
    (pc = "computed" /\ Len(datasets.sptrains.data) = 0) =>
        /\ error = "none"
        /\ Len(statistics) = Len(datatypes_statistics)
        /\ \A k \in DOMAIN statistics :
              /\ statistics[k].datatype = datatypes_statistics[k]
              /\ statistics[k].dataset = EmptyArray

\* the statistics of a population without a spike are computed
C18_Witness ==
    /\ pc = "computed"
    /\ Len(datasets.sptrains.data) = 0
    /\ datasets.sptrains.shape = <<N_X, StatColumns>>


\* the k-th column, in increasing order, of SpikeCols(i)
NthSpikeCol(i, k) ==
    CHOOSE c \in SpikeCols(i) : Cardinality({e \in SpikeCols(i) : e < c}) = k - 1

\* the k-th inter-spike interval of neuron i, in fine-matrix bins
Isi(i, k) == NthSpikeCol(i, k + 1) - NthSpikeCol(i, k)

\* the mean of 3 * (isi_k - isi_k+1)^2 / (isi_k + isi_k+1)^2 over the
\* consecutive intervals of neuron i, which has n intervals
MeanLv(i, n) ==
    LET total == FracSum([k \in 1..(n - 1) |->
                    Frac(3 * (Isi(i, k) - Isi(i, k + 1)) * (Isi(i, k) - Isi(i, k + 1)),
                         (Isi(i, k) + Isi(i, k + 1)) * (Isi(i, k) + Isi(i, k + 1)))])
    IN  Frac(total[1], total[2] * (n - 1))

C16_WitnessPeriodic ==
    /\ pc = "computed"
    /\ "lvs" \in DOMAIN Written("LVs")
    /\ \E i \in 0..(N_X - 1) :
          /\ Cardinality(SpikeCols(i)) >= 3
          /\ \A k \in 1..(Cardinality(SpikeCols(i)) - 1) : Isi(i, k) = Isi(i, 1)


\* the columns _compute_ccs_distances analyses: those at or after the
\* cut-off without the very last one
Analysed == min_time_index_sim..(StatColumns - 2)

\* the neurons that spiked in the analysed columns
SpikingNeurons == {i \in 0..(N_X - 1) : \E c \in Analysed : SumAt(datasets.sptrains, i, c) > 0}

\* K: the configured number, capped by the smallest population, or the
\* smallest population for 'auto'
SelectionSize ==
    LET smallest == Min({stat_circuit.num_neurons[k] : k \in DOMAIN stat_circuit.num_neurons})
    IN  IF stat_circuit.ccs_num_neurons.auto THEN smallest
        ELSE Min({stat_circuit.ccs_num_neurons.n, smallest})

\* the selected neurons: the SelectionSize lowest-id spiking neurons, or
\* all spiking neurons if there are fewer
Selected ==
    {i \in SpikingNeurons :
        Cardinality({m \in SpikingNeurons : m < i}) < SelectionSize}

\* the a-th selected neuron in increasing order of id
NthSelected(a) ==
    CHOOSE i \in Selected : Cardinality({m \in Selected : m < i}) = a - 1

\* the place of neuron i
PlaceOf(i) == <<datasets.positions.x[i], datasets.positions.y[i]>>

\* C14 as stated: with k selected neurons _compute_ccs_distances returns
\* exactly k*(k-1)/2 coefficients and k*(k-1)/2 distances, and the j-th
\* coefficient and the j-th distance belong to the same pair of selected
\* neurons, also when fewer than K neurons spiked.
C14_CoefficientsPairedWithDistances ==
    (pc = "computed" /\ "ccs" \in DOMAIN Written("CCs_distances")) =>
        LET k     == Cardinality(Selected)
            pairs == Pairs(k)
            ccs   == Written("CCs_distances").ccs
            dist  == Written("CCs_distances").distances_mm
        IN  /\ Len(ccs) = Len(pairs)
            /\ Len(dist) = Len(pairs)
            /\ \A j \in DOMAIN pairs :
                  /\ ccs[j][1].nid = NthSelected(pairs[j][1])
                  /\ ccs[j][2].nid = NthSelected(pairs[j][2])
                  /\ dist[j] = _calc_radial_dist_to_cell(
                                   PlaceOf(NthSelected(pairs[j][1])),
                                   PlaceOf(NthSelected(pairs[j][2])),
                                   stat_circuit.extent, TRUE)

\* C15 as stated: the distance paired with a coefficient follows the
\* configured periodicity flag: whichever value periodic the flag has, it
\* is the plain Euclidean distance of the two neurons when periodic is
\* FALSE and the minimum-image distance when periodic is TRUE.
C15_DistanceFollowsPeriodicity ==
    (pc = "computed" /\ "distances_mm" \in DOMAIN Written("CCs_distances")) =>
        LET pairs == Pairs(Cardinality(Selected))
            dist  == Written("CCs_distances").distances_mm
        IN  \A j \in DOMAIN pairs \cap DOMAIN dist : \A periodic \in BOOLEAN :
                dist[j] = _calc_radial_dist_to_cell(
                              PlaceOf(NthSelected(pairs[j][1])),
                              PlaceOf(NthSelected(pairs[j][2])),
                              stat_circuit.extent, periodic)


----------------------------------------------------------------------------
(* Properties of the phases of the run and of the merge *)

\* the datatypes that have a file per population
AllDatatypes ==
    {datatypes_preprocess[k] : k \in DOMAIN datatypes_preprocess}
        \cup {datatypes_statistics[k] : k \in DOMAIN datatypes_statistics}

\* the step is a completed merge of the datatype
MergeCompleted(datatype) ==
    /\ datatype \notin DOMAIN merged
    /\ datatype \in DOMAIN merged'
    /\ returned' # returned

\* C19: a step that completes _merge_h5_files_populations_datatype for a
\* datatype leaves a merged file with exactly one entry per configured
\* population, in configured order and under the population's name, each
\* equal to what the population's file held before the step; it leaves no
\* file of that datatype for any population and changes no other file.
C19_MergedOnePerPopulation ==
    [][\A datatype \in AllDatatypes :
          MergeCompleted(datatype) =>
              /\ Len(merged'[datatype]) = Len(X)
              /\ \A k \in 1..Len(X) :
                    /\ merged'[datatype][k].name = X[k]
                    /\ k - 1 \in DOMAIN h5 /\ datatype \in DOMAIN h5[k - 1]
                    /\ merged'[datatype][k].data = h5[k - 1][datatype]
              /\ \A i \in DOMAIN h5' :
                    /\ datatype \notin DOMAIN h5'[i]
                    /\ DOMAIN h5'[i] = DOMAIN h5[i] \ {datatype}
                    /\ \A dt \in DOMAIN h5'[i] : h5'[i][dt] = h5[i][dt]
              /\ \A dt \in DOMAIN merged : merged'[dt] = merged[dt]]_vars

\* a preprocess datatype in which the two populations differ and a
\* statistics datatype are merged and have no file per population left
C19_Witness ==
    /\ {"sptrains", "positions", "FRs"} \subseteq DOMAIN merged
    /\ Len(merged["sptrains"]) = Len(X)
    /\ merged["sptrains"][1].data # merged["sptrains"][2].data
    /\ merged["positions"][1].data # merged["positions"][2].data
    /\ \A i \in DOMAIN h5 : DOMAIN h5[i] \cap {"sptrains", "positions", "FRs"} = {}

\* the phases after the conversion of the raw files, in order
PhaseOrder ==
    <<"preprocess", "statistics", "merge_preprocess", "merge_statistics", "done">>

\* every task of the phase has returned
PhaseFinished(phase) == DOMAIN returned[phase] = Tasks(phase)

\* C20: while a rank is in a phase, or a task of that phase has returned,
\* every task of every earlier phase has returned on whichever rank ran it;
\* and while a rank is in a merge phase every population has its file of
\* every datatype that is not merged yet, and no merge task has missed a
\* file.
C20_PhasesAreBarriers ==
    /\ \A b \in DOMAIN PhaseOrder : \A a \in 1..(b - 1) :
          ((\E r \in Ranks : rank_pc[r] = PhaseOrder[b])
              \/ (PhaseOrder[b] \in DOMAIN returned /\ returned[PhaseOrder[b]] # <<>>))
            => PhaseFinished(PhaseOrder[a])
    /\ (\E r \in Ranks : rank_pc[r] = "merge_preprocess") =>
          \A i \in Pops : \A dt \in AllDatatypes \ DOMAIN merged :
              i \in DOMAIN h5 /\ dt \in DOMAIN h5[i]
    /\ (\E r \in Ranks : rank_pc[r] = "merge_statistics") =>
          \A i \in Pops : \A k \in DOMAIN datatypes_statistics :
              datatypes_statistics[k] \notin DOMAIN merged =>
                  i \in DOMAIN h5 /\ datatypes_statistics[k] \in DOMAIN h5[i]
    /\ \A r \in Ranks : rank_pc[r] # "FileNotFoundError"

\* one rank has merged a statistics datatype while another rank has not
\* yet left the merge of the preprocess datatypes
C20_Witness ==
    /\ \E r \in Ranks : rank_pc[r] = "merge_preprocess"
    /\ \E r \in Ranks : rank_pc[r] = "merge_statistics"
    /\ returned.merge_statistics # <<>>
    /\ PhaseFinished("merge_preprocess")


----------------------------------------------------------------------------
(* Spikes outside the range of the time bins *)

\* C28 as stated: in every matrix _time_binned_sptrains_X returns, the
\* first and the last column hold only the spikes whose time lies in the
\* first and in the last time bin; a spike before the first bin edge or at
\* or after the end of the last bin is in neither (it is excluded, or the
\* call has raised and no matrix is returned).
C28_OutsideNotCounted ==
    pc = "returned" =>
        \A b \in Binnings :
            b[1] \in DOMAIN datasets =>
                \A i \in 0..(N_X - 1) : \A t \in {0, Len(b[2]) - 1} :
                    Entry(datasets[b[1]], i, t) = SpikeCount(i, t, b[2]) % uint8


----------------------------------------------------------------------------
(* _preprocess_data_X under a configured list of datatypes *)

\* the list L without its a-th element
Omit(L, a) == [k \in 1..(Len(L) - 1) |-> IF k < a THEN L[k] ELSE L[k + 1]]

\* the list L with its a-th and b-th element exchanged
Swap(L, a, b) ==
    [k \in 1..Len(L) |-> IF k = a THEN L[b] ELSE IF k = b THEN L[a] ELSE L[k]]

\* configured lists: the full list in dependency order, with one datatype
\* left out, or with two datatypes exchanged
OrderLists ==
    LET L == datatypes_preprocess_sorting
    IN  {L} \cup {Omit(L, a) : a \in 1..Len(L)}
            \cup {Swap(L, a, b) : a \in 1..Len(L), b \in 1..Len(L)}

\* ana_dict['sorting_axis']: 'x', 'y', None, or an axis there is not
SortingAxes == {"x", "y", "None", "z"}

\* positions on the grid, sorted by node id: the neurons side by side from
\* the first edge on, along x or against y, or all in one place
OrderPositions ==
    {[k \in 1..N_X |-> [nodeid |-> k - 1, x |-> space_bins[1] + k - 1,
                        y |-> space_bins[1]]],
     [k \in 1..N_X |-> [nodeid |-> k - 1, x |-> space_bins[1],
                        y |-> space_bins[1] + N_X - k]],
     [k \in 1..N_X |-> [nodeid |-> k - 1, x |-> space_bins[1], y |-> space_bins[1]]]}

\* spike records: none, or spikes of the first and the last neuron
OrderSpikes ==
    {<<>>,
     <<[nodeid |-> 0, time_ms |-> time_bins_rs[1], mult |-> 1],
       [nodeid |-> N_X - 1, time_ms |-> time_bins_rs[2], mult |-> 2]>>}

InitOrder ==
    /\ RunIdle
    /\ positions \in OrderPositions
    /\ spikes \in OrderSpikes
    /\ stat_circuit \in [datatypes_preprocess : OrderLists, sorting_axis : SortingAxes]
    /\ datasets = <<>>
    /\ written = <<>>
    /\ error = "none"
    /\ pc = "loaded"
    /\ statistics = <<>>

OrderTask ==
    /\ pc = "loaded"
    /\ \E perm \in SortingOrders(stat_circuit.sorting_axis, positions) :
          LET r == PreprocessLoop(stat_circuit, perm, 1, <<>>, <<>>, N_X,
                                  space_bins, positions, spikes)
          IN  /\ datasets' = r.datasets
              /\ written' = r.written
              /\ error' = r.error
    /\ pc' = "returned"
    /\ UNCHANGED <<positions, spikes, stat_circuit, statistics>>
    /\ UNCHANGED run_vars

NextOrder == OrderTask

SpecOrder == InitOrder /\ [][NextOrder]_vars

\* the datasets a stage consumes
Consumes(datatype) ==
    CASE datatype = "sptrains_bintime_binspace" -> {"positions", "sptrains_bintime"}
      [] datatype \in {"neuron_count_binspace", "pos_sorting_arrays"} -> {"positions"}
      [] datatype = "inst_rates_bintime_binspace" ->
            {"sptrains_bintime_binspace", "neuron_count_binspace"}
      [] OTHER -> {}

\* the configured list names datatype at index k
ConfiguredAt(k, datatype) ==
    k \in DOMAIN stat_circuit.datatypes_preprocess
        /\ stat_circuit.datatypes_preprocess[k] = datatype

\* every dataset the stage at index k of the configured list consumes is
\* configured before it
InputsBefore(k) ==
    \A c \in Consumes(stat_circuit.datatypes_preprocess[k]) :
        \E j \in 1..(k - 1) : ConfiguredAt(j, c)

\* the dataset of a derived stage is the one computed from the datasets of
\* this task
FromOwnInputs(datatype) ==
    CASE datatype = "sptrains_bintime_binspace" ->
            datasets[datatype] = _time_and_space_binned_sptrains_X(
                _positions_X(positions), datasets["sptrains_bintime"], space_bins, uint16)
      [] datatype = "neuron_count_binspace" ->
            datasets[datatype] =
                _neuron_count_per_spatial_bin_X(_positions_X(positions), space_bins)
      [] datatype = "inst_rates_bintime_binspace" ->
            datasets[datatype] = _instantaneous_time_and_space_binned_rates_X(
                datasets["sptrains_bintime_binspace"], binsize_time,
                datasets["neuron_count_binspace"])
      [] datatype = "pos_sorting_arrays" ->
            \E perm \in SortingOrders(stat_circuit.sorting_axis, positions) :
                datasets[datatype] = [indices |-> [k \in DOMAIN perm |-> perm[k] - 1]]
      [] OTHER -> TRUE

\* C23: in a preprocessing task every stage that has run found all the
\* datasets it consumes computed earlier in the same task and holds the
\* dataset computed from them; and if the configured list leaves out an
\* input of a stage or names it after the stage, the task has failed with
\* that stage and all later ones not run.
C23_StagesAfterInputs ==
    pc = "returned" =>
        LET dts == stat_circuit.datatypes_preprocess
        IN  /\ \A k \in DOMAIN written :
                  /\ written[k] = dts[k]
                  /\ InputsBefore(k)
                  /\ Consumes(dts[k]) \subseteq {written[j] : j \in 1..(k - 1)}
                  /\ dts[k] \in DOMAIN datasets
                  /\ FromOwnInputs(dts[k])
            /\ DOMAIN datasets = {written[k] : k \in DOMAIN written}
            /\ \A k \in DOMAIN dts :
                  ~InputsBefore(k) =>
                      /\ error # "none"
                      /\ Len(written) < k

\* a task whose list names a stage after two others and before one of
\* its inputs has failed with a KeyError at that stage, the datasets before
\* it written
C23_Witness ==
    /\ pc = "returned"
    /\ error = "KeyError"
    /\ \E k \in DOMAIN stat_circuit.datatypes_preprocess :
          /\ k > 2
          /\ Len(written) = k - 1
          /\ \E c \in Consumes(stat_circuit.datatypes_preprocess[k]) :
                \E j \in DOMAIN stat_circuit.datatypes_preprocess :
                    j > k /\ ConfiguredAt(j, c)


----------------------------------------------------------------------------
(* _compute_cc_funcs_thalamic_pulses: the rings of cells on the diagonals *)

\* largest grid side of the matrices
MaxSide == 6

\* int(np.sqrt(n))
int_sqrt(n) == CHOOSE d \in 0..n : d * d <= n /\ n < (d + 1) * (d + 1)

\* np.reshape(list, (2, -1)): the two halves of the list as rows
reshape_2(list) ==
    [r \in 1..2 |-> [c \in 1..(Len(list) \div 2) |-> list[(r - 1) * (Len(list) \div 2) + c]]]

\* row[::-1]
reversed(row) == [c \in 1..Len(row) |-> row[Len(row) + 1 - c]]

\* [i * dim1 + i for i in range(dim1)]
idx_diag_1(dim1) == reshape_2([j \in 1..dim1 |-> (j - 1) * dim1 + (j - 1)])

\* the second diagonal taken to be the first one again
idx_diag_2_main(dim1) == reshape_2([j \in 1..dim1 |-> (j - 1) * dim1 + (j - 1)])

\* [(i + 1) * dim1 - (i + 1) for i in range(dim1)]
idx_diag_2(dim1) == reshape_2([j \in 1..dim1 |-> j * dim1 - j])

\* the four rows of idx_diag_same_dist
idx_diag_same_dist(dim1) ==
    <<reversed(idx_diag_1(dim1)[1]), idx_diag_1(dim1)[2],
      reversed(idx_diag_2(dim1)[1]), idx_diag_2(dim1)[2]>>

\* the cells averaged in _compute_cc_funcs_thalamic_pulses: for each k in
\* np.arange(0, nbins_diag) the column idx_diag_same_dist[:, k] of flat
\* cell indices; rows_TC and rows_X are the numbers of rows of the two
\* matrices, configured is ana_dict['cc_funcs_nbins_diag']
_compute_cc_funcs_thalamic_pulses(configured, rows_X, rows_TC) ==
    LET dim        == int_sqrt(rows_TC)
        nbins_diag == IF configured > dim \div 2 THEN dim \div 2 ELSE configured
        dim1       == int_sqrt(rows_X)
    IN  IF dim % 2 # 0 THEN Raise("Exception")
        ELSE IF dim1 # dim THEN Raise("Exception")
        ELSE [idx |-> [k \in 1..nbins_diag |->
                          [j \in 1..4 |-> idx_diag_same_dist(dim1)[j][k]]]]

InitRings ==
    /\ RunIdle
    /\ positions = <<>>
    /\ spikes = <<>>
    /\ written = <<>>
    /\ error = "none"
    /\ pc = "binned"
    /\ statistics = <<>>
    /\ stat_circuit \in [cc_funcs_nbins_diag : 0..MaxSide]
    /\ datasets \in [sptrains_bintime_binspace_X : {[rows |-> g * g] : g \in 1..MaxSide},
                     sptrains_bintime_binspace_TC : {[rows |-> g * g] : g \in 1..MaxSide}]

RingsTask ==
    /\ pc = "binned"
    /\ LET res == _compute_cc_funcs_thalamic_pulses(
                      stat_circuit.cc_funcs_nbins_diag,
                      datasets.sptrains_bintime_binspace_X.rows,
                      datasets.sptrains_bintime_binspace_TC.rows)
       IN  IF IsExc(res)
           THEN /\ error' = res.exc
                /\ UNCHANGED statistics
           ELSE /\ statistics' = res.idx
                /\ UNCHANGED error
    /\ pc' = "correlated"
    /\ UNCHANGED <<positions, spikes, datasets, written, stat_circuit>>
    /\ UNCHANGED run_vars

NextRings == RingsTask

SpecRings == InitRings /\ [][NextRings]_vars

\* the grid side of the matrix of population X
GridSide == int_sqrt(datasets.sptrains_bintime_binspace_X.rows)

\* the cell (row, col) as a flat index
Cell(row, col) == row * GridSide + col

\* the four cells of ring k, k = 0 nearest the centre
RingCells(k) ==
    LET h == GridSide \div 2
    IN  {Cell(h - 1 - k, h - 1 - k), Cell(h + k, h + k),
         Cell(h - 1 - k, h + k), Cell(h + k, h - 1 - k)}

\* C26: for an even grid side G the function evaluates exactly
\* min(configured rings, G/2) rings; ring k averages over four distinct
\* cells, the cells (G/2-1-k, G/2-1-k), (G/2+k, G/2+k), (G/2-1-k, G/2+k)
\* and (G/2+k, G/2-1-k); and no cell belongs to two rings.
C26_DiagonalRings ==
    (pc = "correlated" /\ error = "none") =>
        LET G     == GridSide
            cells == [k \in DOMAIN statistics |->
                        {statistics[k][j] : j \in 1..4}]
        IN  /\ G % 2 = 0
            /\ Len(statistics) = Min({stat_circuit.cc_funcs_nbins_diag, G \div 2})
            /\ \A k \in DOMAIN statistics :
                  /\ Cardinality(cells[k]) = 4
                  /\ cells[k] = RingCells(k - 1)
            /\ \A k, l \in DOMAIN statistics : k # l => cells[k] \cap cells[l] = {}

\* three rings are evaluated on a grid of side 6 although more are
\* configured
C26_Witness ==
    /\ pc = "correlated"
    /\ error = "none"
    /\ GridSide = 6
    /\ stat_circuit.cc_funcs_nbins_diag > 3
    /\ Len(statistics) = 3


----------------------------------------------------------------------------
(* _compute_ccs_distances under a configured interval and bin size *)

\* largest configured interval and bin size, in ms
MaxInterval == 3

\* two neurons that spike in the analysed columns: the first one in any
\* of them, the second one twice in the first of them
WindowMatrices ==
    {MatrixOfTrains([i \in 0..(N_X - 1) |->
                        IF i = 0 THEN t0
                        ELSE IF i = 1
                             THEN [c \in 0..(StatColumns - 1) |->
                                      IF c = min_time_index_sim THEN 2 ELSE 0]
                             ELSE [c \in 0..(StatColumns - 1) |-> 0]]) :
     t0 \in {t \in FirstTrains :
                \E c \in min_time_index_sim..(StatColumns - 2) : t[c] = 1}}

InitWindows ==
    /\ RunIdle
    /\ positions \in StatPositions
    /\ spikes = <<>>
    /\ \E m \in WindowMatrices :
          datasets = [positions |-> _positions_X(positions), sptrains |-> m]
    /\ written = <<>>
    /\ error = "none"
    /\ pc = "preprocessed"
    /\ stat_circuit \in [num_neurons : {net_num_neurons},
                         ccs_num_neurons : {[auto |-> FALSE, n |-> 2]},
                         extent : {extent},
                         ccs_time_interval : 1..MaxInterval,
                         sim_resolution : 1..MaxInterval]
    /\ statistics = <<>>

\* the call of _compute_ccs_distances in _compute_statistics_X
WindowsTask ==
    /\ pc = "preprocessed"
    /\ \E u \in UninitRows :
          LET d   == LoadPreprocessed(datasets.positions, datasets.sptrains)
              res == _compute_ccs_distances(stat_circuit, d.sptrains_X,
                        stat_circuit.sim_resolution, d.positions_X,
                        [a \in 1..N_X |-> u])
          IN  IF IsExc(res)
              THEN /\ error' = res.exc
                   /\ UNCHANGED statistics
              ELSE /\ statistics' = <<[datatype |-> "CCs_distances", dataset |-> res]>>
                   /\ UNCHANGED error
    /\ pc' = "computed"
    /\ UNCHANGED <<positions, spikes, datasets, written, stat_circuit>>
    /\ UNCHANGED run_vars

NextWindows == WindowsTask

SpecWindows == InitWindows /\ [][NextWindows]_vars

\* round(a / b) for a >= 0 and b > 0, a half going to the even neighbour
Round(a, b) ==
    IF (2 * a) % (2 * b) = b
    THEN IF (a \div b) % 2 = 0 THEN a \div b ELSE a \div b + 1
    ELSE (2 * a + b) \div (2 * b)

\* C25 as stated: every binned spike train the coefficients are computed
\* from is the train of its neuron summed into windows of
\* round(configured interval / bin size) fine bins, whatever the interval
\* and the bin size.
C25_WindowWidthRounded ==
    (pc = "computed" /\ "ccs" \in DOMAIN Written("CCs_distances")) =>
        LET w   == Round(stat_circuit.ccs_time_interval, stat_circuit.sim_resolution)
            ccs == Written("CCs_distances").ccs
        IN  \A j \in DOMAIN ccs : \A a \in 1..2 :
                ccs[j][a].nid >= 0 =>
                    /\ w > 0
                    /\ Len(ccs[j][a].row) * w = StatColumns - min_time_index_sim - 1
                    /\ \A v \in DOMAIN ccs[j][a].row :
                          ccs[j][a].row[v] =
                              SumSeq([c \in 1..w |->
                                  SumAt(datasets.sptrains, ccs[j][a].nid,
                                        min_time_index_sim + (v - 1) * w + c - 1)])


----------------------------------------------------------------------------
(* _compute_statistics_X under a configured list of statistics datatypes *)

\* configured lists: the statistics of the model with a datatype that no
\* branch of the loop handles at any place, or without any
EstimatorLists ==
    LET L == <<"FRs", "LVs">>
    IN  {L} \cup {[k \in 1..(Len(L) + 1) |->
                     IF k < a THEN L[k] ELSE IF k = a THEN "CVs" ELSE L[k - 1]] :
                  a \in 1..(Len(L) + 1)}

InitEstimators ==
    /\ RunIdle
    /\ positions \in StatPositions
    /\ spikes = <<>>
    /\ \E m \in StatMatrices :
          datasets = [positions |-> _positions_X(positions), sptrains |-> m]
    /\ written = <<>>
    /\ error = "none"
    /\ pc = "preprocessed"
    /\ stat_circuit \in
          [num_neurons : {net_num_neurons},
           ccs_num_neurons : {[auto |-> TRUE]},
           extent : {extent},
           ccs_time_interval : {ccs_time_interval},
           datatypes_statistics : EstimatorLists,
           time_statistics : {(StatColumns - min_time_index_sim) * sim_resolution}]
    /\ statistics = <<>>

EstimatorsTask ==
    /\ pc = "preprocessed"
    /\ \E u \in UninitRows :
          LET res == _compute_statistics_X(stat_circuit, datasets.positions,
                        datasets.sptrains, [a \in 1..N_X |-> u])
          IN  /\ statistics' = res.written
              /\ error' = res.error
    /\ pc' = "computed"
    /\ UNCHANGED <<positions, spikes, datasets, written, stat_circuit>>
    /\ UNCHANGED run_vars

NextEstimators == EstimatorsTask

SpecEstimators == InitEstimators /\ [][NextEstimators]_vars

\* the dataset is the one the estimator of the datatype computes from the
\* loaded data
ComputedFor(datatype, dataset) ==
    LET d == LoadPreprocessed(datasets.positions, datasets.sptrains)
    IN  CASE datatype = "FRs" ->
                dataset = [rates |-> _compute_rates(d.sptrains_X,
                                                    stat_circuit.time_statistics)]
          [] datatype = "LVs" -> dataset = [lvs |-> _compute_lvs(d.sptrains_X)]
          [] OTHER -> FALSE

\* C29 as stated: for a population with spikes after the cut-off, every
\* dataset written is the one computed for its datatype, a datatype
\* without estimator is never written, and the task has failed if the
\* configured list holds one.
C29_WrittenIsComputed ==
    (pc = "computed" /\ \E i \in 0..(N_X - 1) : SpikesAfterCut(i) > 0) =>
        LET dts == stat_circuit.datatypes_statistics
        IN  /\ \A k \in DOMAIN statistics :
                  /\ statistics[k].datatype = dts[k]
                  /\ ComputedFor(dts[k], statistics[k].dataset)
            /\ (\E k \in DOMAIN dts : dts[k] \notin {"FRs", "LVs"}) => error # "none"


----------------------------------------------------------------------------
(* The table of raw node ids *)

\* the rank has returned from _load_raw_nodeids
TableLoaded(r) == rank_pc[r] # "load_nodeids"

\* C22: a rank's table changes only in _load_raw_nodeids, where rank 0
\* takes the content of the file and every other rank takes what rank 0
\* holds; a rank that has left _load_raw_nodeids holds the table of the
\* file, as rank 0 does, and a conversion task has started only on ranks
\* that hold it.
C22_TableBroadcast ==
    /\ \A r \in Ranks : TableLoaded(r) =>
          /\ nodeids_raw[r] = NodeidsFile
          /\ nodeids_raw[r] = nodeids_raw[0]
          /\ TableLoaded(0)
    /\ \A r \in Ranks : ~TableLoaded(r) => nodeids_raw[r] = <<>>
    /\ (\E datatype \in {"positions", "spike_recorder"} :
           processed_data[datatype] # <<>>) =>
          \E r \in Ranks : TableLoaded(r) /\ nodeids_raw[r] = NodeidsFile
    /\ \A r \in Ranks : \A datatype \in {"positions", "spike_recorder"} :
          \A i \in DOMAIN processed_data[datatype] :
              Owner(i) = r => TableLoaded(r)

\* a rank other than 0 has converted a raw file with the table it got
\* from rank 0, before rank 0 has converted any
C22_Witness ==
    \E r \in Ranks \ {0} :
        /\ \E i \in DOMAIN processed_data.positions : Owner(i) = r
        /\ nodeids_raw[r] = NodeidsFile
        /\ \A i \in DOMAIN processed_data.positions : Owner(i) # 0


----------------------------------------------------------------------------
(* merge_h5_files_populations on a directory where files are missing *)

\* the file all_{datatype}.h5 that an earlier merge has left
MergedBefore(datatype) ==
    [k \in 1..Len(X) |-> [name |-> X[k], data |-> [merged_of |-> k - 1]]]

\* the directory processed_data when the merge of the statistics starts:
\* any of the files {datatype}_{X}.h5 may be missing, and the merged files
\* of an earlier run of the merge may be there
InitMerge ==
    /\ TaskIdle
    /\ raw_data = <<>>
    /\ extract_1mm2 = FALSE
    /\ net_extent = extent
    /\ nodeids_raw = [r \in Ranks |-> NodeidsFile]
    /\ processed_data = [positions |-> <<>>, spike_recorder |-> <<>>]
    /\ returned = [positions |-> [i \in Pops |-> TRUE],
                   spike_recorder |-> [i \in Pops |-> TRUE],
                   extract |-> <<>>,
                   preprocess |-> [i \in Pops |-> TRUE],
                   statistics |-> [i \in Pops |-> TRUE],
                   merge_preprocess |-> [i \in Tasks("merge_preprocess") |-> TRUE],
                   merge_statistics |-> <<>>]
    /\ \E present \in [Pops -> SUBSET {datatypes_statistics[k] :
                                          k \in DOMAIN datatypes_statistics}] :
          h5 = [i \in Pops |-> [dt \in present[i] |-> [file_of |-> i]]]
    /\ \E before \in BOOLEAN :
          merged = IF before
                   THEN [dt \in {datatypes_statistics[k] :
                                    k \in DOMAIN datatypes_statistics} |->
                            MergedBefore(dt)]
                   ELSE <<>>
    /\ rank_pc = [r \in Ranks |-> "merge_statistics"]
    /\ file_access = {}

NextMerge ==
    \E r \in Ranks : \E i \in Tasks("merge_statistics") :
        MergeDatatype(r, i, "merge_statistics")

SpecMerge == InitMerge /\ [][NextMerge]_vars

\* a merge task fails in this step
MergeFails ==
    \E r \in Ranks : rank_pc[r] = "merge_statistics" /\ rank_pc'[r] = "FileNotFoundError"

\* C30 as stated: a step in which a merge task fails for a missing file
\* leaves every merged file with its content and every file of a
\* population in place.
C30_FailedMergeChangesNothing ==
    [][MergeFails =>
          /\ \A dt \in DOMAIN merged : dt \in DOMAIN merged' /\ merged'[dt] = merged[dt]
          /\ \A i \in DOMAIN h5 : \A dt \in DOMAIN h5[i] : dt \in DOMAIN h5'[i]]_vars


----------------------------------------------------------------------------
(* The files of the run and the ranks that write or remove them *)

\* C21 as stated: the ranks that write or remove a file at the same place
\* of the run are one rank.
C21_OneWriterPerFile ==
    \A a \in file_access : \A b \in file_access :
        (a.file = b.file /\ a.at = b.at) => a.rank = b.rank

\* the files of the tasks: every file but the parameter files
TaskFilesHaveOneWriter ==
    \A a \in file_access : \A b \in file_access :
        (a.file = b.file /\ a.at = b.at /\ a.file.name # "ana_dict") => a.rank = b.rank


----------------------------------------------------------------------------
(* The correlation with the thalamic population: thalamic input of type   *)
(* 'pulses', datatypes_statistics = ['CCfuncs_thalamic_pulses'], the run   *)
(* from the preprocessing to the merge of the preprocess datatypes         *)

\* the population TC, counted from 0
i_TC == CHOOSE i \in Pops : X[i + 1] = "TC"

\* the file sptrains_bintime_binspace_TC.h5 is there
FileOfTC(files) ==
    /\ i_TC \in DOMAIN files
    /\ "sptrains_bintime_binspace" \in DOMAIN files[i_TC]

\* the branch 'CCfuncs_thalamic_pulses' of _compute_statistics_X for
\* population i: the file of TC is opened and read where the population is
\* not TC and has spikes after the startup transient
ThalamicDataset(i, files) ==
    IF SparseSize(SliceColumns(files[i]["sptrains"], min_time_index_sim)) = 0
    THEN EmptyArray
    ELSE IF X[i + 1] = "TC" THEN EmptyArray
    ELSE IF ~FileOfTC(files) THEN Raise("FileNotFoundError")
    ELSE _compute_cc_funcs_thalamic_pulses(MaxSide,
            files[i]["sptrains_bintime_binspace"].shape[1],
            files[i_TC]["sptrains_bintime_binspace"].shape[1])

\* one task _compute_statistics_X of the run with the thalamic pulses
ThalamicStatisticsX(r, i) ==
    /\ rank_pc[r] = "statistics"
    /\ IsNextTask(r, i, "statistics")
    /\ LET dataset == ThalamicDataset(i, h5)
       IN  IF IsExc(dataset)
           THEN /\ rank_pc' = [rank_pc EXCEPT ![r] = dataset.exc]
                /\ UNCHANGED <<returned, h5, file_access>>
           ELSE /\ h5' = [h5 EXCEPT ![i] = ("CCfuncs_thalamic_pulses" :> dataset) @@ @]
                /\ returned' = [returned EXCEPT !.statistics = (i :> TRUE) @@ @]
                /\ file_access' = file_access \cup
                      Accesses({File("CCfuncs_thalamic_pulses", X[i + 1], "h5")}, r)
                /\ UNCHANGED rank_pc
    /\ UNCHANGED <<task_vars, run_config, merged, nodeids_raw, processed_data>>

\* the spikes of a population: none, or one spike of a neuron
ThalamicSpikes == {s \in DiscSpikes : Len(s) <= 1}

\* the run when preprocess_data has converted the raw files; the neurons of
\* TC lie anywhere, the other populations' at the origin
InitThalamic ==
    /\ TaskIdle
    /\ raw_data = <<>>
    /\ extract_1mm2 = FALSE
    /\ net_extent = extent
    /\ merged = <<>>
    /\ nodeids_raw = [r \in Ranks |-> NodeidsFile]
    /\ \E p \in DiscPositions : \E s \in [Pops -> ThalamicSpikes] :
          processed_data =
             [positions |->
                 [i \in Pops |->
                     IF i = i_TC THEN p
                     ELSE [k \in 1..N_X |-> [nodeid |-> k - 1, x |-> 0, y |-> 0]]],
              spike_recorder |-> s]
    /\ returned = [positions |-> [i \in Pops |-> N_X],
                   spike_recorder |-> [i \in Pops |-> Len(processed_data.spike_recorder[i])],
                   extract |-> <<>>, preprocess |-> <<>>, statistics |-> <<>>,
                   merge_preprocess |-> <<>>, merge_statistics |-> <<>>]
    /\ h5 = <<>>
    /\ rank_pc = [r \in Ranks |-> "preprocess"]
    /\ file_access = {}

NextThalamic ==
    \E r \in Ranks :
        \/ \E i \in Pops : PreprocessDataX(r, i)
        \/ EndParallelize(r)
        \/ \E i \in Pops : ThalamicStatisticsX(r, i)
        \/ \E i \in Tasks("merge_preprocess") : MergeDatatype(r, i, "merge_preprocess")

SpecThalamic == InitThalamic /\ [][NextThalamic]_vars

\* the statistics task of population i is the next step of rank r
StatisticsTaskReady(r, i) ==
    rank_pc[r] = "statistics" /\ IsNextTask(r, i, "statistics")

\* C27: whenever the statistics task of a population other than TC is
\* about to run, the preprocessing task of TC has returned, the file
\* sptrains_bintime_binspace_TC.h5 is there and no merge task has merged
\* the datatype; and no statistics task has failed for a missing file.
C27_ReadsPersistedFileOfTC ==
    /\ \A r \in Ranks : \A i \in Pops \ {i_TC} :
          StatisticsTaskReady(r, i) =>
              /\ i_TC \in DOMAIN returned.preprocess
              /\ FileOfTC(h5)
              /\ "sptrains_bintime_binspace" \notin DOMAIN merged
    /\ \A r \in Ranks : rank_pc[r] # "FileNotFoundError"

\* a population other than TC, preprocessed on another rank than TC, has
\* its correlation with TC written while the file of TC is still there
C27_Witness ==
    \E i \in Pops \ {i_TC} :
        /\ Owner(i) # Owner(i_TC)
        /\ i \in DOMAIN returned.statistics
        /\ "idx" \in DOMAIN h5[i]["CCfuncs_thalamic_pulses"]
        /\ FileOfTC(h5)


----------------------------------------------------------------------------
(* A run in which a task raises: from the preprocessing to the end, with   *)
(* the failure of one rank ending the run on the others                    *)

\* the places of a rank in a run
RunPlaces ==
    {"load_nodeids", "positions", "spike_recorder", "check", "extract",
     "preprocess", "statistics", "merge_preprocess", "merge_statistics", "done"}

\* the rank has ended with an exception
Failed(r) == rank_pc[r] \notin RunPlaces \cup {"aborted"}

\* the run is ended on a rank that has not failed itself once another rank
\* has failed
Abort(r) ==
    /\ \E q \in Ranks : Failed(q)
    /\ rank_pc[r] \in RunPlaces
    /\ rank_pc' = [rank_pc EXCEPT ![r] = "aborted"]
    /\ UNCHANGED <<task_vars, run_config, merged, nodeids_raw, processed_data,
                   returned, h5, file_access>>

\* positions of a population: every neuron at the origin, or the first
\* one outside of the extent
FailFastPositions ==
    {[k \in 1..N_X |-> [nodeid |-> k - 1,
                        x |-> IF k = 1 THEN x0 ELSE 0,
                        y |-> IF k = 1 THEN -x0 - 1 ELSE 0]] :
        x0 \in {0, space_bins[1] - 1}}

\* the run when preprocess_data has converted the raw files
InitFailFast ==
    /\ TaskIdle
    /\ raw_data = <<>>
    /\ extract_1mm2 = FALSE
    /\ net_extent = extent
    /\ merged = <<>>
    /\ nodeids_raw = [r \in Ranks |-> NodeidsFile]
    /\ processed_data \in [positions : [Pops -> FailFastPositions],
                           spike_recorder : [Pops -> ThalamicSpikes]]
    /\ returned = [positions |-> [i \in Pops |-> N_X],
                   spike_recorder |-> [i \in Pops |-> Len(processed_data.spike_recorder[i])],
                   extract |-> <<>>, preprocess |-> <<>>, statistics |-> <<>>,
                   merge_preprocess |-> <<>>, merge_statistics |-> <<>>]
    /\ h5 = <<>>
    /\ rank_pc = [r \in Ranks |-> "preprocess"]
    /\ file_access = {}

NextFailFast ==
    \E r \in Ranks :
        \/ \E i \in Pops : PreprocessDataX(r, i)
        \/ EndParallelize(r)
        \/ \E i \in Pops : ComputeStatisticsX(r, i)
        \/ \E i \in Tasks("merge_preprocess") : MergeDatatype(r, i, "merge_preprocess")
        \/ \E i \in Tasks("merge_statistics") : MergeDatatype(r, i, "merge_statistics")
        \/ Abort(r)

\* the end of the run on a rank is not put off forever
SpecFailFast ==
    InitFailFast /\ [][NextFailFast]_vars /\ \A r \in Ranks : WF_vars(Abort(r))

\* the place in PhaseOrder of the first phase a task of which has not
\* returned
FirstOpenPhase ==
    CHOOSE a \in DOMAIN PhaseOrder :
        /\ PhaseOrder[a] = "done" \/ ~PhaseFinished(PhaseOrder[a])
        /\ \A b \in 1..(a - 1) : PhaseFinished(PhaseOrder[b])

\* nothing of the phase is there: no rank is in it, no task of it has
\* returned and no file of it is written
Untouched(phase) ==
    /\ \A r \in Ranks : rank_pc[r] # phase
    /\ phase \in DOMAIN returned => returned[phase] = <<>>
    /\ phase = "statistics" =>
          \A i \in DOMAIN h5 : \A k \in DOMAIN datatypes_statistics :
              datatypes_statistics[k] \notin DOMAIN h5[i]
    /\ phase \in {"merge_preprocess", "merge_statistics"} =>
          \A k \in DOMAIN MergeDatatypes(phase) :
              MergeDatatypes(phase)[k] \notin DOMAIN merged

=============================================================================
